---- MODULE Spec2Model ----
(***************************************************************************)
(* A model of VerifiableCredentialStore (lib/VerifiableCredentialStore.js): *)
(* the credential bundle graph kept in an EDV document store.               *)
(*                                                                          *)
(* Every public call (insert, upsert, delete) is a task that advances one   *)
(* store call at a time, so that calls interleave exactly where the code    *)
(* awaits the store.  The bundle contents of a call are child tasks.        *)
(***************************************************************************)
EXTENDS Naturals, Integers, Sequences, FiniteSets, TLC

VARIABLES
  store,    \* the EDV: document handle -> stored document (live documents)
  nextId,   \* the next handle generateId() hands out; lower handles that
            \* are not live are tombstones
  tasks,    \* call path -> the call's local state
  calls     \* number of top-level calls started so far

vars == <<store, nextId, tasks, calls>>

----------------------------------------------------------------------------
(* Bounds of the model *)

\* top-level calls a behaviour makes
MaxCalls == 4

\* top-level calls a behaviour makes while other clients write
MaxEnvCalls == 2

\* updates by other clients are made while the sequence numbers stored sum
\* to less than this
MaxSeq == 12

\* the attempts of one delete call during which other clients interfere
MaxAttempts == 1

\* the documents the store takes before it rejects every further write
MaxStored == 2

(* Program constants *)
OPS_CONCURRENCY == 10
retries == 10

----------------------------------------------------------------------------
(* Values *)

\* application identifiers (`credential.id`)
CredIds == {"P1", "P2", "A", "C"}

Issuer == "did:example:issuer"

\* `undefined` where a document is expected
NoDoc == [id |-> 0]

\* the credential with application id `cid`
Cred(cid) == [id |-> cid, issuer |-> Issuer]

Has(obj, key) == key \in DOMAIN obj

\* a JS object spread / assignment of one key: {...obj, [key]: val}
With(obj, key, val) ==
  [k \in DOMAIN obj \cup {key} |-> IF k = key THEN val ELSE obj[k]]

\* `delete obj[key]`
Without(obj, key) == [k \in DOMAIN obj \ {key} |-> obj[k]]

\* the empty object {}
EmptyObj == [k \in {} |-> TRUE]

SeqToSet(s) == {s[i] : i \in DOMAIN s}

\* new Set(a).add(x) spread back to an array: insertion order, no duplicates
SetAdd(a, x) == IF x \in SeqToSet(a) THEN a ELSE Append(a, x)

\* new Set(a).delete(x) spread back to an array
SetDelete(a, x) == SelectSeq(a, LAMBDA y : y # x)

----------------------------------------------------------------------------
(* The EDV client, as the store calls it *)

\* constructor: ensureIndex({attribute: 'content.id', unique: true})
UniqueAttributesNone == {}
UniqueAttributes == {"content.id"}

ContentId(doc) == IF Has(doc.content, "id") THEN doc.content.id ELSE ""

\* live documents of `st` whose content.id is `cid`
DocsById(st, cid) ==
  {h \in DOMAIN st : Has(st[h].content, "id") /\ st[h].content.id = cid}

\* a write of `doc` would give two live documents the same unique attribute
Collides(st, doc) ==
  /\ "content.id" \in UniqueAttributes
  /\ Has(doc.content, "id")
  /\ DocsById(st, doc.content.id) \ {doc.id} # {}

Put(st, doc) == [h \in DOMAIN st \cup {doc.id} |-> IF h = doc.id THEN doc ELSE st[h]]

Remove(st, h) == [k \in DOMAIN st \ {h} |-> st[k]]

\* edvClient.update({doc}) against store `st` with `nid` the next unused
\* handle; a document built for a fresh handle is created
EdvUpdate(st, nid, doc) ==
  IF doc.id \in DOMAIN st
    THEN IF st[doc.id].sequence # doc.sequence
           THEN [name |-> "InvalidStateError", store |-> st, nextId |-> nid, doc |-> doc]
         ELSE IF Collides(st, doc)
           THEN [name |-> "DuplicateError", store |-> st, nextId |-> nid, doc |-> doc]
         ELSE LET d == [doc EXCEPT !.sequence = doc.sequence + 1]
              IN [name |-> "ok", store |-> Put(st, d), nextId |-> nid, doc |-> d]
  ELSE IF doc.id < nid \/ doc.sequence # 0
    THEN \* a tombstone, or no record to update
         [name |-> "InvalidStateError", store |-> st, nextId |-> nid, doc |-> doc]
  ELSE IF Collides(st, doc)
    THEN [name |-> "DuplicateError", store |-> st, nextId |-> nid, doc |-> doc]
  ELSE [name |-> "ok", store |-> Put(st, doc), nextId |-> nid + 1, doc |-> doc]

\* edvClient.insert({doc}): the client assigns the handle and sequence 0
EdvInsert(st, nid, doc) ==
  LET d == [id |-> nid, content |-> doc.content, meta |-> doc.meta, sequence |-> 0]
  IN IF Collides(st, d)
       THEN [name |-> "DuplicateError", store |-> st, nextId |-> nid, doc |-> d]
       ELSE [name |-> "ok", store |-> Put(st, d), nextId |-> nid + 1, doc |-> d]

\* the delete does not compare sequence numbers
EdvDeleteAnySequence(st, doc) ==
  IF doc.id \notin DOMAIN st
    THEN [name |-> "NotFoundError", store |-> st]
  ELSE [name |-> "ok", store |-> Remove(st, doc.id)]

\* edvClient.delete({doc})
EdvDelete(st, doc) ==
  IF doc.id \notin DOMAIN st
    THEN [name |-> "NotFoundError", store |-> st]
  ELSE IF st[doc.id].sequence # doc.sequence
    THEN [name |-> "InvalidStateError", store |-> st]
  ELSE [name |-> "ok", store |-> Remove(st, doc.id)]

\* edvClient.find({equals: {'content.id': id}}) -> documents[0]
FindById(st, cid) ==
  IF DocsById(st, cid) = {} THEN NoDoc
  ELSE st[CHOOSE h \in DocsById(st, cid) : \A k \in DocsById(st, cid) : h <= k]

\* the lookup returns undefined and nothing is thrown
GetUndefined(st, id) == [name |-> "ok", doc |-> FindById(st, id)]

\* get({id}): lines 73-83
Get(st, id) ==
  IF FindById(st, id) = NoDoc
    THEN [name |-> "NotFoundError", doc |-> NoDoc]
    ELSE [name |-> "ok", doc |-> FindById(st, id)]

----------------------------------------------------------------------------
(* Helpers of the module *)

\* stands for an issuer that is neither a string nor an object with a
\* string `id`
MalformedIssuer == "malformed issuer"

\* _getIssuer({credential}); "" stands for the thrown Error
GetIssuer(credential) ==
  IF Has(credential, "issuer") /\ credential.issuer # MalformedIssuer
    THEN credential.issuer
    ELSE ""

\* the stored ids are dropped
UnionSecond(a1, a2) == a2

\* _union(a1, a2)
Union(a1, a2) ==
  LET add[i \in 0..Len(a2)] == IF i = 0 THEN a1 ELSE SetAdd(add[i - 1], a2[i])
  IN add[Len(a2)]

\* no meta key is skipped for special handling except `bundledBy`
DefaultMutatorCopyDependent(doc, credential, meta) ==
  LET copied == DOMAIN meta \ {"bundledBy"}
      merged == [k \in DOMAIN doc.meta \cup copied |->
                   IF k \in copied THEN meta[k] ELSE doc.meta[k]]
      unioned == IF Has(meta, "bundledBy")
                   THEN With(merged, "bundledBy",
                             IF Has(doc.meta, "bundledBy")
                               THEN Union(doc.meta.bundledBy, meta.bundledBy)
                               ELSE meta.bundledBy)
                   ELSE merged
  IN [doc EXCEPT !.meta = unioned]

\* the supplied credential replaces the stored content
DefaultMutatorOverwrites(doc, credential, meta) ==
  [doc EXCEPT !.content = credential,
              !.meta = [k \in DOMAIN doc.meta \cup DOMAIN meta |->
                          IF k \in DOMAIN meta THEN meta[k] ELSE doc.meta[k]]]

\* defaultMutator({doc, credential, meta}): content is preserved, meta merged
DefaultMutator(doc, credential, meta) ==
  LET copied == DOMAIN meta \ {"bundledBy", "dependent"}
      merged == [k \in DOMAIN doc.meta \cup copied |->
                   IF k \in copied THEN meta[k] ELSE doc.meta[k]]
      unioned == IF Has(meta, "bundledBy")
                   THEN With(merged, "bundledBy",
                             IF Has(doc.meta, "bundledBy")
                               THEN Union(doc.meta.bundledBy, meta.bundledBy)
                               ELSE meta.bundledBy)
                   ELSE merged
      newMeta == IF Has(meta, "dependent") /\ meta.dependent = FALSE
                   THEN Without(unioned, "dependent")
                   ELSE unioned
  IN [doc EXCEPT !.meta = newMeta]

----------------------------------------------------------------------------
(* insert / upsert: the arguments and the preamble *)

\* a bundleContents entry {credential, dependent}
Leaf(cid, dependent) == [credential |-> Cred(cid), dependent |-> dependent]

\* a bundleContents entry {credential, dependent, bundleContents}
Node(cid, dependent, contents) ==
  [credential |-> Cred(cid), dependent |-> dependent, bundleContents |-> contents]

\* bundleContents of the call, [] when undefined
Contents(args) ==
  IF Has(args, "bundleContents") THEN args.bundleContents ELSE <<>>

\* JS values that are not of the expected type: a bundleContents that is
\* not an array, truthy (a string, an object) or falsy (null, 0, ""), and a
\* bundleContents entry that is not an object
NotArrayTruthy == <<[notArray |-> TRUE]>>
NotArrayFalsy == <<[notArray |-> FALSE]>>
NotObject == [notObject |-> TRUE]

\* Array.isArray(x)
IsArray(x) == ~(Len(x) = 1 /\ Has(x[1], "notArray"))

\* if(x), for a bundleContents x
Truthy(x) == IsArray(x) \/ x[1].notArray

\* entry && typeof entry === 'object'
IsObject(e) == ~Has(e, "notObject")

\* assert.bundleContents(x): "ok" or the name of the first error it throws
RECURSIVE AssertBundleContents(_)
AssertBundleContents(x) ==
  LET check(e) ==
        IF ~IsObject(e) THEN "TypeError"
        ELSE IF ~Has(e, "credential") THEN "TypeError"
        ELSE IF ~Has(e, "bundleContents") THEN "ok"
        ELSE IF ~Truthy(e.bundleContents) THEN "ok"
        ELSE IF AssertBundleContents(e.bundleContents) # "ok"
          THEN AssertBundleContents(e.bundleContents)
        ELSE IF ~Has(e.credential, "id") THEN "Error"
        ELSE "ok"
      bad == {i \in DOMAIN x : check(x[i]) # "ok"}
  IN IF ~IsArray(x) THEN "TypeError"
     ELSE IF bad = {} THEN "ok"
     ELSE check(x[CHOOSE i \in bad : \A k \in bad : i <= k])

\* insert(), before the first store call: the error thrown, or "ok"
InsertPreamble(args) ==
  IF Has(args, "bundleContents") /\ AssertBundleContents(args.bundleContents) # "ok"
    THEN AssertBundleContents(args.bundleContents)
  ELSE IF Has(args, "bundleContents") /\ ~Has(args.credential, "id")
    THEN "Error"
  ELSE IF ~Has(args.meta, "issuer") /\ GetIssuer(args.credential) = ""
    THEN "Error"
  ELSE "ok"

\* upsert(), before the first store call: the error thrown, or "ok"
UpsertPreamble(args) ==
  IF ~Has(args.credential, "id")
    THEN "TypeError"
  ELSE IF Has(args, "bundleContents") /\ AssertBundleContents(args.bundleContents) # "ok"
    THEN AssertBundleContents(args.bundleContents)
  ELSE IF ~Has(args.meta, "issuer") /\ GetIssuer(args.credential) = ""
    THEN "Error"
  ELSE "ok"

\* meta.bundle is not set
WrittenMetaNoBundle(args) ==
  IF Has(args.meta, "issuer") THEN args.meta
  ELSE With(args.meta, "issuer", GetIssuer(args.credential))

\* the meta insert() and upsert() write: bundle flag and issuer filled in
WrittenMeta(args) ==
  LET m == IF Len(Contents(args)) > 0 THEN With(args.meta, "bundle", TRUE) ELSE args.meta
  IN IF Has(m, "issuer") THEN m ELSE With(m, "issuer", GetIssuer(args.credential))

\* the entry is not recorded as bundled by `bundleId`
BundledByUnchanged(m, bundleId) ==
  IF Has(m, "bundledBy") THEN m.bundledBy ELSE <<>>

\* set = new Set(m.bundledBy || []); set.add(bundleId); [...set]
BundledByAdded(m, bundleId) ==
  SetAdd(IF Has(m, "bundledBy") THEN m.bundledBy ELSE <<>>, bundleId)

\* _addBundleContents: the upsert call made for one entry of bundle `bundleId`
ChildArgs(bundleId, entry) ==
  LET meta == IF Has(entry, "meta") THEN entry.meta ELSE EmptyObj
      dependent == IF Has(entry, "dependent") THEN entry.dependent ELSE TRUE
      m == IF dependent THEN With(meta, "dependent", dependent) ELSE meta
      bundledBy == BundledByAdded(m, bundleId)
      base == [credential |-> entry.credential,
               meta |-> With(m, "bundledBy", bundledBy),
               mutator |-> "default"]
  IN IF Has(entry, "bundleContents")
       THEN With(base, "bundleContents", entry.bundleContents)
       ELSE base

----------------------------------------------------------------------------
(* Tasks *)

NoStore == [h \in {} |-> NoDoc]

\* the local state of an upsert()/insert() call about to make its first
\* store call, or already rejected by its preamble
WriteTask(op, args, pre) ==
  LET check == IF op = "upsert" THEN UpsertPreamble(args) ELSE InsertPreamble(args)
  IN [op |-> op, args |-> args,
      pc |-> IF check = "ok" THEN (IF op = "upsert" THEN "update" ELSE "insert")
             ELSE "threw",
      doc |-> NoDoc, isNew |-> TRUE, i |-> 0,
      error |-> IF check = "ok" THEN "" ELSE check,
      result |-> NoDoc, pre |-> pre]

Parent(p) == SubSeq(p, 1, Len(p) - 1)

AddTask(ts, p, t) == [q \in DOMAIN ts \cup {p} |-> IF q = p THEN t ELSE ts[q]]

\* the entries of task q's bundleContents whose upsert has been started
Started(ts, q) ==
  {k \in 1..Len(Contents(ts[q].args)) : (q \o <<k>>) \in DOMAIN ts}

Settled(t) == t.pc \in {"returned", "threw"}

\* pAll starts the action of entry k of task q
Spawn(ts, q, k) ==
  AddTask(ts, q \o <<k>>,
          WriteTask("upsert",
                    ChildArgs(ts[q].args.credential.id, Contents(ts[q].args)[k]),
                    NoStore))

\* pAll starts every action at once
RECURSIVE SpawnBatchAll(_, _, _)
SpawnBatchAll(ts, q, k) ==
  IF k > Len(Contents(ts[q].args)) THEN ts
  ELSE SpawnBatchAll(Spawn(ts, q, k), q, k + 1)

\* pAll starts the first OPS_CONCURRENCY actions at once
RECURSIVE SpawnBatch(_, _, _)
SpawnBatch(ts, q, k) ==
  IF k > Len(Contents(ts[q].args)) \/ k > OPS_CONCURRENCY THEN ts
  ELSE SpawnBatch(Spawn(ts, q, k), q, k + 1)

MinOf(S) == CHOOSE x \in S : \A y \in S : x <= y

\* Task p has just settled: its promise resolves in the pAll of the call
\* that bundles it ({stopOnError: true}); that call may settle in turn.
RECURSIVE Settle(_, _)
Settle(ts, p) ==
  IF Len(p) = 1 THEN ts
  ELSE
    LET q == Parent(p)
        n == Len(Contents(ts[q].args))
        unstarted == (1..n) \ Started(ts, q)
    IN IF ts[q].pc # "addBundleContents" THEN ts
       ELSE IF ts[p].pc = "threw"
         THEN Settle([ts EXCEPT ![q].pc = "threw", ![q].error = ts[p].error], q)
       ELSE IF unstarted # {}
         THEN LET k == MinOf(unstarted)
                  ts2 == Spawn(ts, q, k)
              IN IF Settled(ts2[q \o <<k>>]) THEN Settle(ts2, q \o <<k>>) ELSE ts2
       ELSE IF \A k \in 1..n : ts[q \o <<k>>].pc = "returned"
         THEN Settle([ts EXCEPT ![q].pc = "returned"], q)
       ELSE ts

\* the top document of call p has been written as `doc`: add the bundle
\* contents, or return
Written(ts, p, doc) ==
  LET t == ts[p]
      n == Len(Contents(t.args))
      waiting == [ts EXCEPT ![p].pc = "addBundleContents", ![p].result = doc]
      batch == SpawnBatch(waiting, p, 1)
      failed == {k \in Started(batch, p) : batch[p \o <<k>>].pc = "threw"}
  IN IF n = 0
       THEN Settle([ts EXCEPT ![p].pc = "returned", ![p].result = doc], p)
     ELSE IF failed # {}
       THEN Settle(batch, p \o <<MinOf(failed)>>)
     ELSE batch

\* the bundle contents are added although the call throws
ThrewButAdds(ts, p, name) ==
  SpawnBatch([ts EXCEPT ![p].pc = "threw", ![p].error = name], p, 1)

Threw(ts, p, name) == Settle([ts EXCEPT ![p].pc = "threw", ![p].error = name], p)

----------------------------------------------------------------------------
(* upsert: lines 309-387 *)

\* the default mutator is used whatever `mutator` is
UpsertDocMerges(t, nid) ==
  IF t.isNew
    THEN [id |-> nid, content |-> t.args.credential,
          meta |-> WrittenMeta(t.args), sequence |-> 0]
  ELSE DefaultMutator(t.doc, t.args.credential, WrittenMeta(t.args))

\* the document one pass of the retry loop tries to write
UpsertDoc(t, nid) ==
  IF t.isNew
    THEN [id |-> nid, content |-> t.args.credential,
          meta |-> WrittenMeta(t.args), sequence |-> 0]
  ELSE IF t.args.mutator = "default"
    THEN DefaultMutator(t.doc, t.args.credential, WrittenMeta(t.args))
  ELSE [t.doc EXCEPT !.meta = WrittenMeta(t.args), !.content = t.args.credential]

\* which update errors the loop recovers from
Recoverable(name, isNew) ==
  name = "InvalidStateError" \/ (name = "DuplicateError" /\ isNew)

\* one pass of the loop up to and including edvClient.update({doc})
UpsertUpdate(p) ==
  /\ p \in DOMAIN tasks
  /\ tasks[p].op = "upsert"
  /\ tasks[p].pc = "update"
  /\ LET t == tasks[p]
         doc == UpsertDoc(t, nextId)
         r == EdvUpdate(store, nextId, doc)
     IN /\ store' = r.store
        /\ nextId' = r.nextId
        /\ tasks' = IF r.name = "ok" THEN Written(tasks, p, r.doc)
                    ELSE IF Recoverable(r.name, t.isNew)
                      THEN [tasks EXCEPT ![p].pc = "get", ![p].error = r.name,
                                         ![p].doc = doc]
                    ELSE Threw(tasks, p, r.name)
  /\ UNCHANGED calls

\* the loop has no bound: the next pass is always made
UpsertGetForever(p) ==
  /\ p \in DOMAIN tasks
  /\ tasks[p].op = "upsert"
  /\ tasks[p].pc = "get"
  /\ LET t == tasks[p]
         found == FindById(store, t.args.credential.id)
         again(isNew, doc) ==
           [tasks EXCEPT ![p].pc = "update", ![p].isNew = isNew, ![p].doc = doc]
     IN tasks' = IF found # NoDoc THEN again(FALSE, found)
                 ELSE IF t.isNew THEN Threw(tasks, p, t.error)
                 ELSE again(TRUE, t.doc)
  /\ UNCHANGED <<store, nextId, calls>>

\* a document that is gone at the re-fetch always ends the call with the
\* error of the update
UpsertGetRethrows(p) ==
  /\ p \in DOMAIN tasks
  /\ tasks[p].op = "upsert"
  /\ tasks[p].pc = "get"
  /\ LET t == tasks[p]
         found == FindById(store, t.args.credential.id)
         again(isNew, doc) ==
           IF t.i + 1 < retries
             THEN [tasks EXCEPT ![p].pc = "update", ![p].isNew = isNew,
                                ![p].doc = doc, ![p].i = t.i + 1]
             ELSE Threw([tasks EXCEPT ![p].i = t.i + 1], p, "TooManyRetries")
     IN tasks' = IF found # NoDoc THEN again(FALSE, found)
                 ELSE Threw(tasks, p, t.error)
  /\ UNCHANGED <<store, nextId, calls>>

\* the catch block: this.get({id: credential.id}), then the next pass or throw
UpsertGet(p) ==
  /\ p \in DOMAIN tasks
  /\ tasks[p].op = "upsert"
  /\ tasks[p].pc = "get"
  /\ LET t == tasks[p]
         found == FindById(store, t.args.credential.id)
         again(isNew, doc) ==
           IF t.i + 1 < retries
             THEN [tasks EXCEPT ![p].pc = "update", ![p].isNew = isNew,
                                ![p].doc = doc, ![p].i = t.i + 1]
             ELSE Threw([tasks EXCEPT ![p].i = t.i + 1], p, "TooManyRetries")
     IN tasks' = IF found # NoDoc THEN again(FALSE, found)
                 ELSE IF t.isNew THEN Threw(tasks, p, t.error)
                 ELSE again(TRUE, t.doc)
  /\ UNCHANGED <<store, nextId, calls>>

----------------------------------------------------------------------------
(* insert: lines 210-243 *)

\* edvClient.insert({doc: {meta, content: credential}})
InsertWrite(p) ==
  /\ p \in DOMAIN tasks
  /\ tasks[p].op = "insert"
  /\ tasks[p].pc = "insert"
  /\ LET t == tasks[p]
         r == EdvInsert(store, nextId,
                [content |-> t.args.credential, meta |-> WrittenMeta(t.args)])
     IN /\ store' = r.store
        /\ nextId' = r.nextId
        /\ tasks' = IF r.name = "ok" THEN Written(tasks, p, r.doc)
                    ELSE Threw(tasks, p, r.name)
  /\ UNCHANGED calls

----------------------------------------------------------------------------
(* _getBundle: lines 530-608 *)

\* the elements of a finite set of numbers, ascending
RECURSIVE Ascending(_)
Ascending(S) ==
  IF S = {} THEN <<>> ELSE <<MinOf(S)>> \o Ascending(S \ {MinOf(S)})

BundledBy(doc) == IF Has(doc.meta, "bundledBy") THEN doc.meta.bundledBy ELSE <<>>

\* this.find({query: ids.map(id => ({bundledBy: id}))}): the live documents
\* bundled by any of `ids`, in handle order
FindByBundledBy(st, ids) ==
  LET hs == {h \in DOMAIN st : SeqToSet(BundledBy(st[h])) \cap ids # {}}
      order == Ascending(hs)
  IN [i \in DOMAIN order |-> st[order[i]]]

\* doc.content.id && doc.meta.bundle
IsBundle(doc) ==
  Has(doc.content, "id") /\ Has(doc.meta, "bundle") /\ doc.meta.bundle = TRUE

\* the traversal state before the first query
\* the value of a parameter or property that is not there
Undefined == "undefined"

GetBundleInit(id) ==
  [retrievedDocs |-> <<>>, bundles |-> {id}, bundleIds |-> <<id>>,
   queried |-> <<>>]

\* the for loop over the documents of one query result
RECURSIVE GetBundleDocs(_, _, _, _)
GetBundleDocs(g, id, docs, i) ==
  IF i > Len(docs) THEN g
  ELSE
    LET doc == docs[i]
        seen == \E j \in DOMAIN g.retrievedDocs : g.retrievedDocs[j].id = doc.id
        g1 == [g EXCEPT !.retrievedDocs = Append(g.retrievedDocs, doc)]
        g2 == [g1 EXCEPT !.bundles = g1.bundles \cup {doc.content.id},
                         !.bundleIds = Append(g1.bundleIds, doc.content.id)]
    IN IF (IF Has(doc.content, "id") THEN doc.content.id ELSE Undefined) = id
            \/ seen
         THEN GetBundleDocs(g, id, docs, i + 1)
       ELSE IF ~IsBundle(doc) \/ doc.content.id \in g.bundles
         THEN GetBundleDocs(g1, id, docs, i + 1)
       ELSE GetBundleDocs(g2, id, docs, i + 1)

\* the sub-bundles found by a query are not queued
GetBundleQueryOnce(st, g, id) ==
  [GetBundleDocs([g EXCEPT !.bundleIds = <<>>,
                           !.queried = g.queried \o g.bundleIds], id,
                 FindByBundledBy(st, SeqToSet(g.bundleIds)), 1)
     EXCEPT !.bundleIds = <<>>]

\* one pass of the while loop: one query against store `st`; `queried`
\* keeps the bundle ids of the queries made so far
GetBundleQuery(st, g, id) ==
  GetBundleDocs([g EXCEPT !.bundleIds = <<>>,
                          !.queried = g.queried \o g.bundleIds], id,
                FindByBundledBy(st, SeqToSet(g.bundleIds)), 1)

\* lines 583-604: the references pushed to bundles.get(b).contents, as
\* indexes into allSubDocuments; the loop over the documents, and in it the
\* loop over the bundledBy of one document
RECURSIVE PushedRefs(_, _, _)
PushedRefs(allSubDocuments, b, k) ==
  IF k > Len(allSubDocuments) THEN <<>>
  ELSE LET hits == SelectSeq(BundledBy(allSubDocuments[k]), LAMBDA x : x = b)
       IN [i \in DOMAIN hits |-> k] \o PushedRefs(allSubDocuments, b, k + 1)

\* bundles.get(bundleId).contents, as indexes into allSubDocuments
BundleContents(allSubDocuments, bundleId) ==
  PushedRefs(allSubDocuments, bundleId, 1)

\* the whole of _getBundle against one unchanging store
RECURSIVE GetBundleLoop(_, _, _)
GetBundleLoop(st, g, id) ==
  IF g.bundleIds = <<>> THEN g ELSE GetBundleLoop(st, GetBundleQuery(st, g, id), id)

GetBundle(st, id) == GetBundleLoop(st, GetBundleInit(id), id)

\* the result of _getBundle: the bundle objects by id (the tree is the
\* bundle of `id`, and the reference to a document that is a bundle holds
\* the bundle object of its content.id), and allSubDocuments
GetBundleResult(g, id) ==
  [bundle |-> [id |-> id,
               contents |-> [b \in g.bundles |-> PushedRefs(g.retrievedDocs, b, 1)]],
   allSubDocuments |-> g.retrievedDocs]

\* getBundle({id}), lines 95-114, against one unchanging store
GetBundleById(st, id) ==
  LET r == Get(st, id)
  IN IF r.name # "ok"
       THEN [name |-> r.name, doc |-> NoDoc, found |-> FALSE,
             result |-> GetBundleResult(GetBundleInit(id), id),
             queried |-> <<>>]
     ELSE IF ~IsBundle(r.doc)
       THEN [name |-> "ok", doc |-> r.doc, found |-> FALSE,
             result |-> GetBundleResult(GetBundleInit(id), id),
             queried |-> <<>>]
     ELSE [name |-> "ok", doc |-> r.doc, found |-> TRUE,
           result |-> GetBundleResult(GetBundle(st, id), id),
           queried |-> GetBundle(st, id).queried]

\* what edvClient.find answers to the query {equals: [{}]}, which
\* find({query: [{bundledBy: undefined}]}) builds (lines 134-152): the
\* client is not part of this repository, so it may reject, match nothing
\* or match every document
FindOutcomes == {"rejects", "nothing", "everything"}

\* _getBundle({id}) with id undefined: the first query is made for
\* bundledBy: undefined, the later ones for the sub-bundles it found
GetBundleUndefined(st, outcome) ==
  LET g0 == GetBundleInit(Undefined)
      \* the documents of the store in the order find returns them
      order == Ascending(DOMAIN st)
      AllDocs == [i \in DOMAIN order |-> st[order[i]]]
      g1 == GetBundleDocs([g0 EXCEPT !.bundleIds = <<>>,
                                     !.queried = g0.queried \o g0.bundleIds],
                          Undefined,
                          IF outcome = "everything" THEN AllDocs ELSE <<>>, 1)
  IN GetBundleLoop(st, g1, Undefined)

\* getBundle({doc}), lines 95-114: `id` is undefined where _getBundle({id})
\* is called
GetBundleByDoc(st, doc, outcome) ==
  IF ~(Has(doc.content, "id") /\ IsBundle(doc))
    THEN [name |-> "ok", doc |-> doc, found |-> FALSE,
          result |-> GetBundleResult(GetBundleInit(Undefined), Undefined),
          queried |-> <<>>]
  ELSE IF outcome = "rejects"
    THEN [name |-> "StoreError", doc |-> doc, found |-> FALSE,
          result |-> GetBundleResult(GetBundleInit(Undefined), Undefined),
          queried |-> <<Undefined>>]
  ELSE [name |-> "ok", doc |-> doc, found |-> TRUE,
        result |-> GetBundleResult(GetBundleUndefined(st, outcome), Undefined),
        queried |-> GetBundleUndefined(st, outcome).queried]

----------------------------------------------------------------------------
(* _deleteBundledDocs: lines 611-708 *)

\* the traversal state: the documents as loaded (contents are fixed by
\* _getBundle), the documents as mutated, and the operation map in
\* insertion order
\* (`expanded` keeps the bundles whose contents the for loop has gone
\* through, in order)
PlanInit(g, id) ==
  [loaded |-> g.retrievedDocs, docs |-> g.retrievedDocs, bundles |-> g.bundles,
   opOrder |-> <<>>,
   opType |-> [k \in {} |-> "update"],
   before |-> [k \in {} |-> <<>>],
   processedBundles |-> {}, next |-> <<>>, expanded |-> <<>>]

\* the document is left as it was loaded
UnlinkNone(doc, bundleId) == doc

\* every bundling parent is dropped at once
UnlinkAll(doc, bundleId) ==
  [doc EXCEPT !.meta = Without(doc.meta, "bundledBy")]

\* lines 625-635: unlink `bundleId` from doc
Unlink(doc, bundleId) ==
  LET set == SetDelete(BundledBy(doc), bundleId)
  IN IF Len(set) > 0
       THEN [doc EXCEPT !.meta = With(doc.meta, "bundledBy", set)]
       ELSE [doc EXCEPT !.meta = Without(doc.meta, "bundledBy")]

\* independence is not looked at
SparedIfBundled(doc) == Len(BundledBy(doc)) > 0

\* line 656: set.size > 0 || !doc.meta.dependent, on the unlinked doc
Spared(doc) ==
  \/ Len(BundledBy(doc)) > 0
  \/ ~(Has(doc.meta, "dependent") /\ doc.meta.dependent = TRUE)

\* no sub-bundle is queued
RecursesNever(s, doc) == FALSE

\* line 665: subBundle && !processedBundles.has(doc.content.id)
Recurses(s, doc) ==
  IsBundle(doc) /\ doc.content.id \notin s.processedBundles

\* the body of the inner for loop: reference k of the contents of bundleId
PlanRef(s, bundleId, k) ==
  LET doc1 == Unlink(s.docs[k], bundleId)
      isNewOp == k \notin DOMAIN s.opType
      s1 == [s EXCEPT !.docs = [s.docs EXCEPT ![k] = doc1],
                      !.opOrder = IF isNewOp THEN Append(s.opOrder, k) ELSE s.opOrder,
                      !.opType = IF isNewOp THEN With(s.opType, k, "update") ELSE s.opType,
                      !.before = IF isNewOp THEN With(s.before, k, <<bundleId>>)
                                 ELSE With(s.before, k, SetAdd(s.before[k], bundleId))]
      s2 == [s1 EXCEPT !.opType = With(s1.opType, k, "delete")]
  IN IF Spared(doc1) THEN s1
     ELSE IF Recurses(s2, doc1)
       THEN [s2 EXCEPT !.next = Append(s2.next, doc1.content.id)]
     ELSE s2

RECURSIVE PlanContents(_, _, _, _)
PlanContents(s, bundleId, contents, i) ==
  IF i > Len(contents) THEN s
  ELSE PlanContents(PlanRef(s, bundleId, contents[i]), bundleId, contents, i + 1)

\* the for loop over the bundles of one level
RECURSIVE PlanLevel(_, _, _)
PlanLevel(s, current, i) ==
  IF i > Len(current) THEN s
  ELSE
    LET bundleId == current[i]
        s1 == [s EXCEPT !.processedBundles = s.processedBundles \cup {bundleId},
                        !.expanded = Append(s.expanded, bundleId)]
    IN PlanLevel(PlanContents(s1, bundleId, BundleContents(s.loaded, bundleId), 1),
                 current, i + 1)

\* the while loop
RECURSIVE PlanLoop(_)
PlanLoop(s) ==
  IF s.next = <<>> THEN s
  ELSE PlanLoop(PlanLevel([s EXCEPT !.next = <<>>], s.next, 1))

\* the operations _deleteBundledDocs schedules for the bundle loaded as g
Plan(g, id) == PlanLoop([PlanInit(g, id) EXCEPT !.next = <<id>>])

\* [...nonBundleOps] and [...bundleOps], as document indexes
NonBundleOps(plan) == SelectSeq(plan.opOrder, LAMBDA k : ~(Has(plan.docs[k].meta, "bundle") /\ plan.docs[k].meta.bundle = TRUE))
BundleOps(plan) == SelectSeq(plan.opOrder, LAMBDA k : Has(plan.docs[k].meta, "bundle") /\ plan.docs[k].meta.bundle = TRUE)

\* the comparator of the sort: negative, positive or zero
Compare(plan, a, b) ==
  IF ContentId(plan.docs[b]) \in SeqToSet(plan.before[a]) THEN -1
  ELSE IF ContentId(plan.docs[a]) \in SeqToSet(plan.before[b]) THEN 1
  ELSE 0


\* the permutations of a sequence without duplicates
PermutationsOf(s) ==
  {f \in [DOMAIN s -> SeqToSet(s)] : \A i, j \in DOMAIN s : f[i] = f[j] => i = j}

\* the comparator is a consistent comparator over the operations `ops`
Consistent(plan, ops) ==
  LET S == SeqToSet(ops)
      c(a, b) == Compare(plan, a, b)
  IN /\ \A a \in S : c(a, a) = 0
     /\ \A a, b \in S : c(a, b) = -c(b, a)
     /\ \A a, b, x \in S : (c(a, b) = 0 /\ c(b, x) = 0) => c(a, x) = 0
     /\ \A a, b, x \in S : (c(a, b) < 0 /\ c(b, x) < 0) => c(a, x) < 0

\* position of x in the sequence s
IndexOf(s, x) == CHOOSE i \in DOMAIN s : s[i] = x

\* [...bundleOps].sort(comparator): the stable order when the comparator is
\* consistent; with an inconsistent comparator the order is whatever the
\* engine's algorithm yields, so any permutation
SortedOrders(plan) ==
  LET ops == BundleOps(plan)
      stable(f) == \A i, j \in DOMAIN f : i < j =>
                     \/ Compare(plan, f[i], f[j]) < 0
                     \/ /\ Compare(plan, f[i], f[j]) = 0
                        /\ IndexOf(ops, f[i]) < IndexOf(ops, f[j])
  IN IF Consistent(plan, ops)
       THEN {f \in PermutationsOf(ops) : stable(f)}
       ELSE PermutationsOf(ops)

----------------------------------------------------------------------------
(* delete: lines 413-527 *)

\* delete(), before the first store call: the error thrown, or "ok"
DeletePreamble(args) ==
  IF ~(Has(args, "id") \/ Has(args, "docId")) THEN "TypeError"
  ELSE IF Has(args, "id") /\ Has(args, "docId") THEN "Error"
  ELSE "ok"

NoResult == [deleted |-> FALSE, doc |-> NoDoc, bundle |-> FALSE]

\* the local state of one attempt of delete() (one call of _delete)
DeleteTask(args, pre) ==
  LET check == DeletePreamble(args)
      id == IF Has(args, "id") THEN args.id ELSE ""
  IN [op |-> "delete", args |-> args,
      pc |-> IF check # "ok" THEN "threw"
             ELSE IF Has(args, "docId") THEN "get" ELSE "load",
      id |-> id, doc |-> NoDoc, docLoaded |-> FALSE,
      g |-> GetBundleInit(id),
      plan |-> PlanInit(GetBundleInit(id), id),
      pending |-> <<>>, errors |-> <<>>, sorted |-> <<>>,
      bundle |-> FALSE,
      error |-> IF check = "ok" THEN "" ELSE check,
      result |-> NoResult, pre |-> pre,
      attempt |-> 1]

\* return {deleted, doc, bundle}
Return(t, deleted) ==
  [t EXCEPT !.pc = "returned",
            !.result = [deleted |-> deleted, doc |-> t.doc, bundle |-> t.bundle]]

\* a stale write reaches the caller like any other error
RaiseSurfaces(t, name) ==
  IF name = "NotFoundError" THEN Return(t, t.bundle)
  ELSE [t EXCEPT !.pc = "threw", !.error = name]

\* an error leaves _delete: NotFoundError is turned into a result, a stale
\* write makes delete() start over, anything else reaches the caller
Raise(t, name) ==
  IF name = "NotFoundError" THEN Return(t, t.bundle)
  ELSE IF name = "InvalidStateError"
    THEN [DeleteTask(t.args, t.pre) EXCEPT !.attempt = t.attempt + 1]
  ELSE [t EXCEPT !.pc = "threw", !.error = name]

\* a target that is gone always gives deleted: false
TargetGoneFalse(t) ==
  IF t.doc = NoDoc THEN Return(t, FALSE) ELSE [t EXCEPT !.pc = "delete"]

\* lines 514-520: nothing is left but the target itself
Target(t) ==
  IF t.doc = NoDoc THEN Return(t, t.bundle) ELSE [t EXCEPT !.pc = "delete"]

\* the serial bundle operations are left out
BundleStageSkipped(t, sorted) == Target([t EXCEPT !.bundle = TRUE])

\* _deleteBundledDocs after the non-bundle operations: the serial bundle
\* operations in the order `sorted`, then back in _delete
BundleStage(t, sorted) ==
  IF Len(sorted) > 0 THEN [t EXCEPT !.pc = "bundleOps", !.sorted = sorted]
  ELSE Target([t EXCEPT !.bundle = TRUE])

\* the constraint is never raised
ConstrainedNever(t) == FALSE

\* `force` is not looked at
ConstrainedForced(t) == t.doc # NoDoc /\ Len(BundledBy(t.doc)) > 0

\* lines 491-499: another VC bundles the VC to be deleted
Constrained(t) ==
  ~t.args.force /\ t.doc # NoDoc /\ Len(BundledBy(t.doc)) > 0

\* `force` stands in for `deleteBundle`
CascadesForced(t) ==
  Len(t.g.retrievedDocs) > 0 /\ (t.args.deleteBundle \/ t.args.force)

\* lines 501-502: the bundled documents are deleted or unlinked first
Cascades(t) == Len(t.g.retrievedDocs) > 0 /\ t.args.deleteBundle

\* the constraint is never raised
BlockedNever(t) == FALSE

\* lines 501, 506: other credentials are bundled by the target
Blocked(t) ==
  Len(t.g.retrievedDocs) > 0 /\ ~t.args.deleteBundle /\ ~t.args.force

\* lines 491-512, with the document and the bundle loaded
Decide(t, sorted) ==
  IF Constrained(t)
    THEN Raise(t, "ConstraintError")
  ELSE IF Cascades(t)
    THEN LET plan == Plan(t.g, t.id)
             t1 == [t EXCEPT !.plan = plan, !.pending = NonBundleOps(plan)]
         IN IF Len(t1.pending) > 0
              THEN [t1 EXCEPT !.pc = "nonBundleOps", !.sorted = sorted]
              ELSE BundleStage(t1, sorted)
  ELSE IF Blocked(t)
    THEN Raise(t, "ConstraintError")
  ELSE Target(t)

\* the orders the bundle operations may run in once task t has loaded
\* everything
Orders(t) ==
  IF t.docLoaded /\ t.g.bundleIds = <<>> /\ Cascades(t)
    THEN SortedOrders(Plan(t.g, t.id))
    ELSE {<<>>}

\* both loads are complete
Loaded(t) == t.docLoaded /\ t.g.bundleIds = <<>>

\* edvClient.get({id: docId})
DeleteGet(p) ==
  /\ p \in DOMAIN tasks
  /\ tasks[p].op = "delete"
  /\ tasks[p].pc = "get"
  /\ LET t == tasks[p]
         found == t.args.docId \in DOMAIN store
         doc == store[t.args.docId]
         t1 == [t EXCEPT !.doc = doc, !.docLoaded = TRUE, !.id = ContentId(doc),
                         !.g = GetBundleInit(ContentId(doc)), !.pc = "load"]
     IN tasks' = [tasks EXCEPT ![p] =
          IF ~found THEN Return(t, FALSE)
          ELSE IF Has(doc.content, "id") THEN t1
          ELSE IF ~t.args.force /\ Len(BundledBy(doc)) > 0
            THEN Raise(t1, "ConstraintError")
          ELSE Raise(t1, "TypeError")]
  /\ UNCHANGED <<store, nextId, calls>>

\* edvClient.find({equals: {'content.id': id}})
DeleteFindDoc(p) ==
  /\ p \in DOMAIN tasks
  /\ tasks[p].op = "delete"
  /\ tasks[p].pc = "load"
  /\ ~tasks[p].docLoaded
  /\ LET t == [tasks[p] EXCEPT !.doc = FindById(store, tasks[p].id),
                               !.docLoaded = TRUE]
     IN \E sorted \in Orders(t) :
          tasks' = [tasks EXCEPT ![p] = IF Loaded(t) THEN Decide(t, sorted) ELSE t]
  /\ UNCHANGED <<store, nextId, calls>>

\* one query of the _getBundle started by _delete
DeleteFindBundle(p) ==
  /\ p \in DOMAIN tasks
  /\ tasks[p].op = "delete"
  /\ tasks[p].pc = "load"
  /\ tasks[p].g.bundleIds # <<>>
  /\ LET t == [tasks[p] EXCEPT !.g = GetBundleQuery(store, tasks[p].g, tasks[p].id)]
     IN \E sorted \in Orders(t) :
          tasks' = [tasks EXCEPT ![p] = IF Loaded(t) THEN Decide(t, sorted) ELSE t]
  /\ UNCHANGED <<store, nextId, calls>>

\* _runOps: the store call of the operation on document k of the plan
RunOp(st, nid, plan, k) ==
  IF plan.opType[k] = "update"
    THEN LET r == EdvUpdate(st, nid, plan.docs[k])
         IN [name |-> r.name, store |-> r.store]
    ELSE EdvDelete(st, plan.docs[k])

\* the operations pAll has started: OPS_CONCURRENCY at first, one more for
\* each one that completed
Running(plan, pending) ==
  LET all == NonBundleOps(plan)
      done == Len(all) - Len(pending)
  IN {all[i] : i \in {j \in DOMAIN all : j <= done + OPS_CONCURRENCY}}
       \cap SeqToSet(pending)

\* one stale-version conflict among the failures is enough to start over
DeleteRunOpAnyStale(p, k) ==
  /\ p \in DOMAIN tasks
  /\ tasks[p].op = "delete"
  /\ tasks[p].pc = "nonBundleOps"
  /\ k \in Running(tasks[p].plan, tasks[p].pending)
  /\ LET t == tasks[p]
         r == RunOp(store, nextId, t.plan, k)
         t1 == [t EXCEPT !.pending = SetDelete(t.pending, k),
                         !.errors = IF r.name = "ok" THEN t.errors
                                    ELSE Append(t.errors, r.name)]
     IN /\ store' = r.store
        /\ tasks' = [tasks EXCEPT ![p] =
             IF Len(t1.pending) > 0 THEN t1
             ELSE IF t1.errors = <<>> THEN BundleStage(t1, t1.sorted)
             ELSE IF \E i \in DOMAIN t1.errors : t1.errors[i] = "InvalidStateError"
               THEN Raise(t1, "InvalidStateError")
             ELSE Raise(t1, "AggregateError")]
  /\ UNCHANGED <<nextId, calls>>

\* one of the concurrent non-bundle operations completes
DeleteRunOp(p, k) ==
  /\ p \in DOMAIN tasks
  /\ tasks[p].op = "delete"
  /\ tasks[p].pc = "nonBundleOps"
  /\ k \in Running(tasks[p].plan, tasks[p].pending)
  /\ LET t == tasks[p]
         r == RunOp(store, nextId, t.plan, k)
         t1 == [t EXCEPT !.pending = SetDelete(t.pending, k),
                         !.errors = IF r.name = "ok" THEN t.errors
                                    ELSE Append(t.errors, r.name)]
     IN /\ store' = r.store
        /\ tasks' = [tasks EXCEPT ![p] =
             IF Len(t1.pending) > 0 THEN t1
             ELSE IF t1.errors = <<>> THEN BundleStage(t1, t1.sorted)
             ELSE IF \A i \in DOMAIN t1.errors : t1.errors[i] = "InvalidStateError"
               THEN Raise(t1, t1.errors[1])
             ELSE Raise(t1, "AggregateError")]
  /\ UNCHANGED <<nextId, calls>>

\* the next of the serial bundle operations
DeleteRunBundleOp(p) ==
  /\ p \in DOMAIN tasks
  /\ tasks[p].op = "delete"
  /\ tasks[p].pc = "bundleOps"
  /\ LET t == tasks[p]
         r == RunOp(store, nextId, t.plan, Head(t.sorted))
     IN /\ store' = r.store
        /\ tasks' = [tasks EXCEPT ![p] =
             IF r.name = "ok" THEN BundleStage(t, Tail(t.sorted))
             ELSE Raise(t, r.name)]
  /\ UNCHANGED <<nextId, calls>>

\* edvClient.delete({doc}) of the target
DeleteDoc(p) ==
  /\ p \in DOMAIN tasks
  /\ tasks[p].op = "delete"
  /\ tasks[p].pc = "delete"
  /\ LET t == tasks[p]
         r == EdvDelete(store, t.doc)
     IN /\ store' = r.store
        /\ tasks' = [tasks EXCEPT ![p] =
             IF r.name = "ok" THEN Return(t, TRUE) ELSE Raise(t, r.name)]
  /\ UNCHANGED <<nextId, calls>>

----------------------------------------------------------------------------
(* Store calls that fail: the EDV client rejects with an error that is none
   of the errors the store recovers from (a network or server error) *)

\* edvClient.update({doc}) of upsert rejects
UpsertUpdateFails(p) ==
  /\ p \in DOMAIN tasks
  /\ tasks[p].op = "upsert"
  /\ tasks[p].pc = "update"
  /\ tasks' = Threw(tasks, p, "StoreError")
  /\ UNCHANGED <<store, nextId, calls>>

\* edvClient.insert({doc}) of insert rejects
InsertWriteFails(p) ==
  /\ p \in DOMAIN tasks
  /\ tasks[p].op = "insert"
  /\ tasks[p].pc = "insert"
  /\ tasks' = Threw(tasks, p, "StoreError")
  /\ UNCHANGED <<store, nextId, calls>>

\* one of the concurrent non-bundle operations rejects; pAll (stopOnError:
\* false) lets the others run and rejects with an AggregateError
DeleteRunOpFails(p, k) ==
  /\ p \in DOMAIN tasks
  /\ tasks[p].op = "delete"
  /\ tasks[p].pc = "nonBundleOps"
  /\ k \in Running(tasks[p].plan, tasks[p].pending)
  /\ LET t == tasks[p]
         t1 == [t EXCEPT !.pending = SetDelete(t.pending, k),
                         !.errors = Append(t.errors, "StoreError")]
     IN tasks' = [tasks EXCEPT ![p] =
          IF Len(t1.pending) > 0 THEN t1 ELSE Raise(t1, "AggregateError")]
  /\ UNCHANGED <<store, nextId, calls>>

\* a serial bundle operation that rejects is passed over
DeleteRunBundleOpGoesOn(p) ==
  /\ p \in DOMAIN tasks
  /\ tasks[p].op = "delete"
  /\ tasks[p].pc = "bundleOps"
  /\ tasks' = [tasks EXCEPT ![p] = BundleStage(tasks[p], Tail(tasks[p].sorted))]
  /\ UNCHANGED <<store, nextId, calls>>

\* the next of the serial bundle operations rejects
DeleteRunBundleOpFails(p) ==
  /\ p \in DOMAIN tasks
  /\ tasks[p].op = "delete"
  /\ tasks[p].pc = "bundleOps"
  /\ tasks' = [tasks EXCEPT ![p] = Raise(tasks[p], "StoreError")]
  /\ UNCHANGED <<store, nextId, calls>>

\* edvClient.delete({doc}) of the target rejects
DeleteDocFails(p) ==
  /\ p \in DOMAIN tasks
  /\ tasks[p].op = "delete"
  /\ tasks[p].pc = "delete"
  /\ tasks' = [tasks EXCEPT ![p] = Raise(tasks[p], "StoreError")]
  /\ UNCHANGED <<store, nextId, calls>>

----------------------------------------------------------------------------
(* The callers *)

\* a bundleContents entry that leaves `dependent` to its default
Entry(cid) == [credential |-> Cred(cid)]

\* an entry with a sub-bundle
SubBundle(cid, contents) == [credential |-> Cred(cid), bundleContents |-> contents]

\* the bundleContents the callers pass
BundleInputs ==
  { <<Entry("C")>>,
    <<Leaf("C", FALSE)>>,
    <<SubBundle("A", <<Entry("C")>>)>>,
    <<SubBundle("A", <<Entry("C")>>), Entry("C")>> }

\* the arguments of the insert and upsert calls
WriteInputs ==
  {[credential |-> Cred(c), meta |-> EmptyObj, mutator |-> "default"] :
     c \in {"A", "C"}}
  \cup
  {[credential |-> Cred("C"), meta |-> [special |-> TRUE], mutator |-> "default"]}
  \cup
  {[credential |-> Cred(c), meta |-> EmptyObj, mutator |-> "default",
    bundleContents |-> b] : c \in {"P1", "P2"}, b \in BundleInputs}

\* the arguments of the delete calls
DeleteInputs ==
  {[id |-> c, deleteBundle |-> b, force |-> f] :
     c \in CredIds, b \in BOOLEAN, f \in BOOLEAN}

Quiet == \A p \in DOMAIN tasks : Settled(tasks[p])

NoTasks == [p \in {} |-> NoResult]

\* a caller invokes insert() or upsert() as call `slot`
CallWrite(slot, op, args) ==
  /\ calls < MaxCalls
  /\ tasks' = AddTask(IF Quiet THEN NoTasks ELSE tasks, <<slot>>,
                      WriteTask(op, args, store))
  /\ calls' = calls + 1
  /\ UNCHANGED <<store, nextId>>

\* a caller invokes delete() as call `slot`
CallDelete(slot, args) ==
  /\ calls < MaxCalls
  /\ tasks' = AddTask(IF Quiet THEN NoTasks ELSE tasks, <<slot>>,
                      DeleteTask(args, store))
  /\ calls' = calls + 1
  /\ UNCHANGED <<store, nextId>>

\* the arguments of the get calls
GetInputs == {[id |-> c] : c \in CredIds}

\* a caller invokes get(), which makes its one store call and settles
CallGet(slot, args) ==
  /\ tasks' = AddTask(NoTasks, <<slot>>,
       LET r == Get(store, args.id)
       IN [op |-> "get", args |-> args,
           pc |-> IF r.name = "ok" THEN "returned" ELSE "threw",
           error |-> IF r.name = "ok" THEN "" ELSE r.name,
           result |-> r.doc])
  /\ UNCHANGED <<store, nextId, calls>>

\* the documents call p still has a concurrent operation to run on
PendingOps(p) ==
  IF tasks[p].op = "delete" THEN SeqToSet(tasks[p].pending) ELSE {}

Init ==
  /\ store = NoStore
  /\ nextId = 1
  /\ tasks = NoTasks
  /\ calls = 0

\* one caller, which awaits each call before it makes the next; a store
\* call of the call in flight completes
Next ==
  \/ Quiet /\ \E args \in WriteInputs : CallWrite(1, "upsert", args)
  \/ Quiet /\ \E args \in WriteInputs : CallWrite(1, "insert", args)
  \/ Quiet /\ \E args \in DeleteInputs : CallDelete(1, args)
  \/ Quiet /\ \E args \in GetInputs : CallGet(1, args)
  \/ \E p \in DOMAIN tasks : UpsertUpdate(p)
  \/ \E p \in DOMAIN tasks : UpsertGet(p)
  \/ \E p \in DOMAIN tasks : InsertWrite(p)
  \/ \E p \in DOMAIN tasks : DeleteFindDoc(p)
  \/ \E p \in DOMAIN tasks : DeleteFindBundle(p)
  \/ \E p \in DOMAIN tasks : \E k \in PendingOps(p) : DeleteRunOp(p, k)
  \/ \E p \in DOMAIN tasks : DeleteRunBundleOp(p)
  \/ \E p \in DOMAIN tasks : DeleteDoc(p)

Spec == Init /\ [][Next]_vars

----------------------------------------------------------------------------
(* Two callers that upsert at the same time *)

Callers == {1, 2}

\* caller `slot` invokes upsert() while the other caller's call may be in
\* flight
StartUpsert(slot, args) ==
  /\ <<slot>> \notin DOMAIN tasks
  /\ tasks' = AddTask(tasks, <<slot>>, WriteTask("upsert", args, store))
  /\ calls' = calls + 1
  /\ UNCHANGED <<store, nextId>>

NextRace ==
  \/ \E slot \in Callers : \E args \in WriteInputs : StartUpsert(slot, args)
  \/ \E p \in DOMAIN tasks : UpsertUpdate(p)
  \/ \E p \in DOMAIN tasks : UpsertGet(p)

SpecRace == Init /\ [][NextRace]_vars

----------------------------------------------------------------------------
(* One caller whose store calls may fail, and who calls delete again after
   a delete that failed *)

\* a bundle four levels deep
DeepContents ==
  <<SubBundle("A", <<SubBundle("B", <<SubBundle("D", <<Entry("C")>>)>>)>>)>>

\* the arguments of the insert and upsert calls
FailWriteInputs ==
  {[credential |-> Cred("P1"), meta |-> EmptyObj, mutator |-> "default",
    bundleContents |-> b] :
     b \in {<<SubBundle("A", <<Entry("C")>>), Entry("C")>>, DeepContents}}
  \cup
  {[credential |-> Cred("P2"), meta |-> EmptyObj, mutator |-> "default",
    bundleContents |-> <<Entry("C")>>]}

\* the arguments of the delete calls
FailDeleteInputs ==
  {[id |-> c, deleteBundle |-> TRUE, force |-> FALSE] : c \in {"P1", "P2"}}

\* the call in flight is a delete called again after it failed
Again == <<1>> \in DOMAIN tasks /\ Has(tasks[<<1>>].args, "again")

\* the caller's delete threw: the caller makes the same call again; `pre`
\* stays the store as it was before the call that failed, and no store
\* call of the new call fails
CallDeleteAgain ==
  /\ Quiet
  /\ <<1>> \in DOMAIN tasks
  /\ tasks[<<1>>].op = "delete"
  /\ tasks[<<1>>].pc = "threw"
  /\ ~Again
  /\ tasks' = AddTask(NoTasks, <<1>>,
                      DeleteTask(With(tasks[<<1>>].args, "again", TRUE),
                                 tasks[<<1>>].pre))
  /\ UNCHANGED <<store, nextId, calls>>

NextFail ==
  \/ Quiet /\ \E args \in FailWriteInputs : CallWrite(1, "upsert", args)
  \/ Quiet /\ \E args \in FailWriteInputs : CallWrite(1, "insert", args)
  \/ Quiet /\ \E args \in FailDeleteInputs : CallDelete(1, args)
  \/ CallDeleteAgain
  \/ \E p \in DOMAIN tasks : UpsertUpdate(p)
  \/ \E p \in DOMAIN tasks : UpsertGet(p)
  \/ \E p \in DOMAIN tasks : InsertWrite(p)
  \/ \E p \in DOMAIN tasks : DeleteFindDoc(p)
  \/ \E p \in DOMAIN tasks : DeleteFindBundle(p)
  \/ \E p \in DOMAIN tasks : \E k \in PendingOps(p) : DeleteRunOp(p, k)
  \/ \E p \in DOMAIN tasks : DeleteRunBundleOp(p)
  \/ \E p \in DOMAIN tasks : DeleteDoc(p)
  \/ \E p \in DOMAIN tasks : UpsertUpdateFails(p)
  \/ \E p \in DOMAIN tasks : InsertWriteFails(p)
  \/ ~Again /\ \E p \in DOMAIN tasks : \E k \in PendingOps(p) : DeleteRunOpFails(p, k)
  \/ ~Again /\ \E p \in DOMAIN tasks : DeleteRunBundleOpFails(p)
  \/ ~Again /\ \E p \in DOMAIN tasks : DeleteDocFails(p)

SpecFail == Init /\ [][NextFail]_vars

----------------------------------------------------------------------------
(* One caller, and other clients of the same EDV that update and delete the
   documents the caller's call has read *)

\* the arguments of the upsert calls
EnvWriteInputs ==
  {[credential |-> Cred("P1"), meta |-> EmptyObj, mutator |-> "default",
    bundleContents |-> b] :
     b \in {<<SubBundle("A", <<Entry("C")>>), Entry("C")>>, <<Entry("C")>>}}

\* the arguments of the delete calls
EnvDeleteInputs == {[id |-> "P1", deleteBundle |-> TRUE, force |-> FALSE]}

\* the copies of stored documents that task t will write or delete
HeldBy(t) ==
  IF t.op = "upsert"
    THEN IF t.pc = "update" /\ ~t.isNew THEN {t.doc} ELSE {}
  ELSE IF t.op = "delete"
    THEN IF t.pc = "nonBundleOps"
           THEN {t.plan.docs[k] : k \in SeqToSet(t.pending) \cup SeqToSet(t.sorted)}
                  \cup {t.doc}
         ELSE IF t.pc = "bundleOps"
           THEN {t.plan.docs[k] : k \in SeqToSet(t.sorted)} \cup {t.doc}
         ELSE IF t.pc = "delete" THEN {t.doc}
         ELSE {}
  ELSE {}

\* the caller's call holds the current version of stored document h
Held(h) ==
  /\ <<1>> \in DOMAIN tasks
  /\ \E d \in HeldBy(tasks[<<1>>]) :
       d # NoDoc /\ d.id = h /\ d.sequence = store[h].sequence

\* the sum of the sequence numbers of the documents stored
RECURSIVE SumSeq(_, _)
SumSeq(st, S) ==
  IF S = {} THEN 0
  ELSE LET h == CHOOSE x \in S : TRUE
       IN st[h].sequence + SumSeq(st, S \ {h})

\* another client updates document h: its sequence advances
Touch(h) ==
  /\ h \in DOMAIN store
  /\ Held(h)
  /\ SumSeq(store, DOMAIN store) < MaxSeq
  /\ store' = [store EXCEPT ![h].sequence = store[h].sequence + 1]
  /\ UNCHANGED <<nextId, tasks, calls>>

\* another client deletes document h
Vanish(h) ==
  /\ h \in DOMAIN store
  /\ Held(h)
  /\ store' = Remove(store, h)
  /\ UNCHANGED <<nextId, tasks, calls>>

NextEnv ==
  \/ Quiet /\ calls < MaxEnvCalls /\ \E args \in EnvWriteInputs : CallWrite(1, "upsert", args)
  \/ Quiet /\ calls < MaxEnvCalls /\ \E args \in EnvDeleteInputs : CallDelete(1, args)
  \/ \E p \in DOMAIN tasks : UpsertUpdate(p)
  \/ \E p \in DOMAIN tasks : UpsertGet(p)
  \/ \E p \in DOMAIN tasks : DeleteFindDoc(p)
  \/ \E p \in DOMAIN tasks : DeleteFindBundle(p)
  \/ \E p \in DOMAIN tasks : \E k \in PendingOps(p) : DeleteRunOp(p, k)
  \/ \E p \in DOMAIN tasks : DeleteRunBundleOp(p)
  \/ \E p \in DOMAIN tasks : DeleteDoc(p)
  \/ \E h \in DOMAIN store : Touch(h)
  \/ \E h \in DOMAIN store : Vanish(h)

SpecEnv == Init /\ [][NextEnv]_vars

----------------------------------------------------------------------------
(* One caller that upserts one credential id again and again, with varying
   content, meta and mutator *)

\* a credential with the id of Cred(cid) and other content
Changed(cid) == [id |-> cid, issuer |-> Issuer, name |-> "changed"]

\* the meta the caller supplies
MutMetas ==
  { EmptyObj,
    [dependent |-> FALSE],
    [dependent |-> TRUE, bundledBy |-> <<"P1">>],
    [bundledBy |-> <<"P2">>, note |-> "n"] }

\* the arguments of the upsert calls; mutator is "default" when the caller
\* passes none and "false" when the caller passes false
MutInputs ==
  {[credential |-> c, meta |-> m, mutator |-> f] :
     c \in {Cred("C"), Changed("C")}, m \in MutMetas, f \in {"default", "false"}}
  \cup
  {[credential |-> Cred("C"), meta |-> EmptyObj, mutator |-> f,
    bundleContents |-> <<Entry("A")>>] : f \in {"default", "false"}}

NextMut ==
  \/ Quiet /\ \E args \in MutInputs : CallWrite(1, "upsert", args)
  \/ \E p \in DOMAIN tasks : UpsertUpdate(p)
  \/ \E p \in DOMAIN tasks : UpsertGet(p)

SpecMut == Init /\ [][NextMut]_vars

----------------------------------------------------------------------------
(* One caller that inserts credentials, with and without an id, and
   deletes by EDV document id *)

\* a credential that has no id
NoIdCred == [issuer |-> Issuer]

\* the arguments of the insert calls
DocIdWriteInputs ==
  {[credential |-> c, meta |-> EmptyObj] : c \in {NoIdCred, Cred("C")}}

\* the arguments of the delete calls: the ids the EDV client generates for
\* the first documents, and one it never generates
DocIdDeleteInputs ==
  {[docId |-> h, deleteBundle |-> TRUE, force |-> FALSE] : h \in {1, 2, 99}}

NextDocId ==
  \/ Quiet /\ \E args \in DocIdWriteInputs : CallWrite(1, "insert", args)
  \/ Quiet /\ \E args \in DocIdDeleteInputs : CallDelete(1, args)
  \/ \E p \in DOMAIN tasks : InsertWrite(p)
  \/ \E p \in DOMAIN tasks : DeleteGet(p)
  \/ \E p \in DOMAIN tasks : DeleteFindBundle(p)
  \/ \E p \in DOMAIN tasks : DeleteDoc(p)

SpecDocId == Init /\ [][NextDocId]_vars

----------------------------------------------------------------------------
(* One caller that passes well-formed and malformed arguments to insert
   and upsert *)

\* bundleContents that assert.bundleContents is to reject, one well-formed,
\* and one whose entry has no credential.id and no sub-bundle
InputContents ==
  { <<Entry("C")>>,
    NotArrayTruthy,
    NotArrayFalsy,
    <<NotObject>>,
    <<[credential |-> Cred("A"), bundleContents |-> NotArrayTruthy]>>,
    <<[credential |-> Cred("A"), bundleContents |-> NotArrayFalsy]>>,
    <<[credential |-> Cred("A"), bundleContents |-> <<NotObject>>]>>,
    <<[credential |-> NoIdCred, bundleContents |-> <<Entry("C")>>]>>,
    <<[credential |-> NoIdCred]>> }

\* the arguments of the insert and upsert calls
InputInputs ==
  {[credential |-> Cred("P1"), meta |-> EmptyObj, mutator |-> "default",
    bundleContents |-> b] : b \in InputContents}
  \cup
  {[credential |-> c, meta |-> EmptyObj, mutator |-> "default"] :
     c \in {Cred("C"), NoIdCred, [id |-> "C"],
            [id |-> "C", issuer |-> MalformedIssuer]}}

NextInput ==
  \/ Quiet /\ \E args \in InputInputs : CallWrite(1, "upsert", args)
  \/ Quiet /\ \E args \in InputInputs : CallWrite(1, "insert", args)
  \/ \E p \in DOMAIN tasks : UpsertUpdate(p)
  \/ \E p \in DOMAIN tasks : UpsertGet(p)
  \/ \E p \in DOMAIN tasks : InsertWrite(p)

SpecInput == Init /\ [][NextInput]_vars

----------------------------------------------------------------------------
(* One caller that upserts bundles of several shapes and reads them with
   getBundle *)

\* the arguments of the upsert calls: a child listed twice, a child shared
\* by two roots, a deep bundle, a bundle that lists its own root, and an
\* overwrite that makes a sub-bundle a plain credential
TreeWriteInputs ==
  {[credential |-> Cred("P1"), meta |-> EmptyObj, mutator |-> "default",
    bundleContents |-> b] :
     b \in {<<SubBundle("A", <<Entry("C")>>), Entry("C")>>,
            DeepContents,
            <<SubBundle("A", <<Entry("P1")>>)>>}}
  \cup
  {[credential |-> Cred("P2"), meta |-> EmptyObj, mutator |-> "default",
    bundleContents |-> <<Entry("C")>>],
   [credential |-> Cred("A"), meta |-> [bundledBy |-> <<"P1">>],
    mutator |-> "false"]}

\* the arguments of the getBundle calls
TreeInputs == {[id |-> c] : c \in {"P1", "P2", "A", "B", "C"}}

\* a caller invokes getBundle({id}) and no other client writes meanwhile
CallGetBundle(slot, args) ==
  /\ tasks' = AddTask(NoTasks, <<slot>>,
       LET r == GetBundleById(store, args.id)
       IN [op |-> "getBundle", args |-> args,
           pc |-> IF r.name = "ok" THEN "returned" ELSE "threw",
           error |-> IF r.name = "ok" THEN "" ELSE r.name,
           doc |-> r.doc, found |-> r.found, result |-> r.result,
           queried |-> r.queried])
  /\ UNCHANGED <<store, nextId, calls>>

NextTree ==
  \/ Quiet /\ \E args \in TreeWriteInputs : CallWrite(1, "upsert", args)
  \/ Quiet /\ \E args \in TreeInputs : CallGetBundle(1, args)
  \/ \E p \in DOMAIN tasks : UpsertUpdate(p)
  \/ \E p \in DOMAIN tasks : UpsertGet(p)

SpecTree == Init /\ [][NextTree]_vars

----------------------------------------------------------------------------
(* One caller that upserts while another client deletes the credential
   between a conflict and the re-fetch of lines 346-372 *)

\* the arguments of the upsert calls
GoneInputs ==
  {[credential |-> c, meta |-> EmptyObj, mutator |-> m] :
     c \in {Cred("C"), Changed("C")}, m \in {"default", "false"}}
  \cup
  {[credential |-> Cred("P1"), meta |-> EmptyObj, mutator |-> "default",
    bundleContents |-> <<Entry("C")>>]}

\* another client deletes the document of the credential that upsert p is
\* about to re-fetch
Gone(p) ==
  /\ p \in DOMAIN tasks
  /\ tasks[p].op = "upsert"
  /\ tasks[p].pc = "get"
  /\ FindById(store, tasks[p].args.credential.id) # NoDoc
  /\ store' = Remove(store, FindById(store, tasks[p].args.credential.id).id)
  /\ UNCHANGED <<nextId, tasks, calls>>

NextGone ==
  \/ Quiet /\ \E args \in GoneInputs : CallWrite(1, "upsert", args)
  \/ \E p \in DOMAIN tasks : UpsertUpdate(p)
  \/ \E p \in DOMAIN tasks : UpsertGet(p)
  \/ \E h \in DOMAIN store : Touch(h)
  \/ \E p \in DOMAIN tasks : Gone(p)

SpecGone == Init /\ [][NextGone]_vars

----------------------------------------------------------------------------
(* One caller whose cascade has several concurrent non-bundle operations,
   which may meet a stale version, a missing document or a rejection *)

\* the arguments of the upsert calls: two plain children and a sub-bundle
OpsWriteInputs ==
  {[credential |-> Cred("P1"), meta |-> EmptyObj, mutator |-> "default",
    bundleContents |-> <<SubBundle("A", <<Entry("C")>>), Entry("C"), Entry("D")>>]}

\* the caller's call in flight is a delete
Deleting == <<1>> \in DOMAIN tasks /\ tasks[<<1>>].op = "delete"

NextOps ==
  \/ Quiet /\ calls < MaxEnvCalls /\ \E args \in OpsWriteInputs : CallWrite(1, "upsert", args)
  \/ Quiet /\ calls < MaxEnvCalls /\ \E args \in EnvDeleteInputs : CallDelete(1, args)
  \/ \E p \in DOMAIN tasks : UpsertUpdate(p)
  \/ \E p \in DOMAIN tasks : UpsertGet(p)
  \/ \E p \in DOMAIN tasks : DeleteFindDoc(p)
  \/ \E p \in DOMAIN tasks : DeleteFindBundle(p)
  \/ \E p \in DOMAIN tasks : \E k \in PendingOps(p) : DeleteRunOp(p, k)
  \/ \E p \in DOMAIN tasks : DeleteRunBundleOp(p)
  \/ \E p \in DOMAIN tasks : DeleteDoc(p)
  \/ \E p \in DOMAIN tasks : \E k \in PendingOps(p) : DeleteRunOpFails(p, k)
  \/ Deleting /\ tasks[<<1>>].attempt <= MaxAttempts /\ \E h \in DOMAIN store : Touch(h)
  \/ Deleting /\ tasks[<<1>>].attempt <= MaxAttempts /\ \E h \in DOMAIN store : Vanish(h)

SpecOps == Init /\ [][NextOps]_vars

----------------------------------------------------------------------------
(* One caller that upserts a bundle with more children than pAll runs at
   once, against a store that rejects writes once it is full *)

\* the credential ids of the children
ManyIds ==
  <<"K1", "K2", "K3", "K4", "K5", "K6", "K7", "K8", "K9", "K10", "K11", "K12">>

\* the arguments of the upsert call
ManyInputs ==
  {[credential |-> Cred("P1"), meta |-> EmptyObj, mutator |-> "default",
    bundleContents |-> [k \in DOMAIN ManyIds |-> Entry(ManyIds[k])]]}

NextMany ==
  \/ Quiet /\ calls < 1 /\ \E args \in ManyInputs : CallWrite(1, "upsert", args)
  \/ Cardinality(DOMAIN store) < MaxStored /\ \E p \in DOMAIN tasks : UpsertUpdate(p)
  \/ \E p \in DOMAIN tasks : UpsertUpdateFails(p)

SpecMany == Init /\ [][NextMany]_vars

----------------------------------------------------------------------------
(* One caller whose upserts make bundle graphs with cycles, shared
   documents and a parent listed twice, and who reads and deletes them *)

\* the arguments of the upsert calls: sub-bundles A and B that bundle each
\* other, a child shared by the root and a sub-bundle, a sub-bundle shared
\* by the root and a sub-bundle, a root that lists itself, and a
\* sub-bundle whose bundledBy names the root twice
CycleWriteInputs ==
  {[credential |-> Cred("P1"), meta |-> EmptyObj, mutator |-> "default",
    bundleContents |-> b] :
     b \in {<<SubBundle("A", <<SubBundle("B", <<Entry("A")>>)>>)>>,
            <<SubBundle("A", <<Entry("C")>>), Entry("C")>>,
            <<SubBundle("A", <<SubBundle("B", <<Entry("C")>>)>>),
              SubBundle("B", <<Entry("C")>>)>>,
            <<Entry("P1")>>}}
  \cup
  {[credential |-> Cred("A"),
    meta |-> [bundle |-> TRUE, dependent |-> TRUE, bundledBy |-> <<"P1", "P1">>],
    mutator |-> "false"]}

\* the arguments of the delete calls
CycleDeleteInputs ==
  {[id |-> c, deleteBundle |-> TRUE, force |-> f] :
     c \in {"P1", "A"}, f \in BOOLEAN}

\* the arguments of the getBundle calls
CycleInputs == {[id |-> c] : c \in {"P1", "A", "B"}}

NextCycle ==
  \/ Quiet /\ \E args \in CycleWriteInputs : CallWrite(1, "upsert", args)
  \/ Quiet /\ \E args \in CycleDeleteInputs : CallDelete(1, args)
  \/ Quiet /\ \E args \in CycleInputs : CallGetBundle(1, args)
  \/ \E p \in DOMAIN tasks : UpsertUpdate(p)
  \/ \E p \in DOMAIN tasks : UpsertGet(p)
  \/ \E p \in DOMAIN tasks : DeleteFindDoc(p)
  \/ \E p \in DOMAIN tasks : DeleteFindBundle(p)
  \/ \E p \in DOMAIN tasks : \E k \in PendingOps(p) : DeleteRunOp(p, k)
  \/ \E p \in DOMAIN tasks : DeleteRunBundleOp(p)
  \/ \E p \in DOMAIN tasks : DeleteDoc(p)

SpecCycle == Init /\ [][NextCycle]_vars

----------------------------------------------------------------------------
(* One caller that upserts bundles and reads them with getBundle, by id
   and by document *)

\* a caller invokes getBundle({doc}) with the stored document h
CallGetBundleByDoc(slot, h, outcome) ==
  /\ h \in DOMAIN store
  /\ tasks' = AddTask(NoTasks, <<slot>>,
       LET r == GetBundleByDoc(store, store[h], outcome)
       IN [op |-> "getBundle", args |-> [doc |-> store[h]],
           pc |-> IF r.name = "ok" THEN "returned" ELSE "threw",
           error |-> IF r.name = "ok" THEN "" ELSE r.name,
           doc |-> r.doc, found |-> r.found, result |-> r.result,
           queried |-> r.queried])
  /\ UNCHANGED <<store, nextId, calls>>

NextByDoc ==
  \/ Quiet /\ \E args \in TreeWriteInputs : CallWrite(1, "upsert", args)
  \/ Quiet /\ \E args \in TreeInputs : CallGetBundle(1, args)
  \/ Quiet /\ \E h \in DOMAIN store : \E o \in FindOutcomes : CallGetBundleByDoc(1, h, o)
  \/ \E p \in DOMAIN tasks : UpsertUpdate(p)
  \/ \E p \in DOMAIN tasks : UpsertGet(p)

SpecByDoc == Init /\ [][NextByDoc]_vars

----------------------------------------------------------------------------
(* A stored bundle P1, deleted by one caller while another caller upserts a
   bundle P2 that lists a document of P1 *)

\* the arguments of the upsert that stores P1
BothSetupInputs ==
  {[credential |-> Cred("P1"), meta |-> EmptyObj, mutator |-> "default",
    bundleContents |-> b] :
     b \in {<<Entry("C")>>, <<SubBundle("A", <<Entry("C")>>), Entry("C")>>}}

\* the arguments of the concurrent upsert
BothWriteInputs ==
  {[credential |-> Cred("P2"), meta |-> EmptyObj, mutator |-> "default",
    bundleContents |-> b] : b \in {<<Entry("C")>>, <<Leaf("C", FALSE)>>}}

\* the upsert of P1 and of its contents, made as call 3 before the two
\* callers start, has settled
SetupDone ==
  /\ <<3>> \in DOMAIN tasks
  /\ \A p \in DOMAIN tasks : p[1] = 3 => Settled(tasks[p])

\* caller `slot` invokes delete() while the other caller's call may be in
\* flight
StartDelete(slot, args) ==
  /\ <<slot>> \notin DOMAIN tasks
  /\ tasks' = AddTask(tasks, <<slot>>, DeleteTask(args, store))
  /\ calls' = calls + 1
  /\ UNCHANGED <<store, nextId>>

NextBoth ==
  \/ tasks = NoTasks /\ \E args \in BothSetupInputs : StartUpsert(3, args)
  \/ SetupDone /\ \E f \in BOOLEAN :
       StartDelete(1, [id |-> "P1", deleteBundle |-> TRUE, force |-> f])
  \/ SetupDone /\ \E args \in BothWriteInputs : StartUpsert(2, args)
  \/ \E p \in DOMAIN tasks : UpsertUpdate(p)
  \/ \E p \in DOMAIN tasks : UpsertGet(p)
  \/ \E p \in DOMAIN tasks : DeleteFindDoc(p)
  \/ \E p \in DOMAIN tasks : DeleteFindBundle(p)
  \/ \E p \in DOMAIN tasks : \E k \in PendingOps(p) : DeleteRunOp(p, k)
  \/ \E p \in DOMAIN tasks : DeleteRunBundleOp(p)
  \/ \E p \in DOMAIN tasks : DeleteDoc(p)

SpecBoth == Init /\ [][NextBoth]_vars

----------------------------------------------------------------------------
(* Claims *)

\* both callers' upserts are for credential id c, which was not stored when
\* either call was made, and both calls have finished
RacedOn(c) ==
  /\ \A slot \in Callers :
       /\ <<slot>> \in DOMAIN tasks
       /\ Settled(tasks[<<slot>>])
       /\ tasks[<<slot>>].args.credential.id = c
       /\ DocsById(tasks[<<slot>>].pre, c) = {}

\* C1: once two concurrent upsert calls for the same credential.id, not
\* stored before, have both finished, the store holds exactly one document
\* with that content.id
C1_OneDocument ==
  \A c \in CredIds : RacedOn(c) => Cardinality(DocsById(store, c)) = 1

\* both calls returned and one of them lost the creation race and went
\* through the catch block
C1_Witness ==
  \E c \in CredIds :
    /\ RacedOn(c)
    /\ \A slot \in Callers : tasks[<<slot>>].pc = "returned"
    /\ \E slot \in Callers : tasks[<<slot>>].i > 0


\* the call of the single caller of Spec is of kind `op`
Called(ops) == <<1>> \in DOMAIN tasks /\ tasks[<<1>>].op \in ops

Top == tasks[<<1>>]

Dependent(doc) == Has(doc.meta, "dependent") /\ doc.meta.dependent = TRUE

Parents(doc) == SeqToSet(BundledBy(doc))

\* every entry of `contents` is stored with bundleId in its bundledBy, and
\* so on below every entry that has contents of its own
RECURSIVE Linked(_, _, _)
Linked(st, bundleId, contents) ==
  \A i \in DOMAIN contents :
    LET e == contents[i]
        doc == FindById(st, e.credential.id)
    IN /\ doc # NoDoc
       /\ bundleId \in Parents(doc)
       /\ Len(Contents(e)) > 0 =>
            /\ IsBundle(doc)
            /\ Linked(st, e.credential.id, Contents(e))

\* C2: after insert or upsert of a credential with non-empty bundleContents
\* has returned, the credential is stored with meta.bundle = true and every
\* bundle content, at every nesting level, is stored with its parent's id in
\* its meta.bundledBy
C2_BundleLinked ==
  (Called({"insert", "upsert"}) /\ Top.pc = "returned" /\ Len(Contents(Top.args)) > 0)
    => LET doc == FindById(store, Top.args.credential.id)
       IN /\ doc # NoDoc
          /\ IsBundle(doc)
          /\ Linked(store, Top.args.credential.id, Contents(Top.args))

\* an insert of a two-level bundle has returned, whose inner content was
\* stored before the call
C2_Witness ==
  /\ Called({"insert"})
  /\ Top.pc = "returned"
  /\ \E i \in DOMAIN Contents(Top.args) : Len(Contents(Contents(Top.args)[i])) > 0
  /\ DocsById(Top.pre, "C") # {}
  /\ DocsById(Top.pre, "A") = {}

\* the handles of the documents of `pre` a cascade from root handle r
\* removes: r, and every dependent document all of whose bundling parents are
\* removed bundles
RECURSIVE RemovedFrom(_, _, _)
RemovedFrom(pre, r, S) ==
  LET ids == {ContentId(pre[x]) : x \in {y \in S : y = r \/ IsBundle(pre[y])}}
      more == {h \in DOMAIN pre \ S :
                 /\ Dependent(pre[h])
                 /\ Parents(pre[h]) # {}
                 /\ Parents(pre[h]) \subseteq ids}
  IN IF more = {} THEN S ELSE RemovedFrom(pre, r, S \cup more)

Removed(pre, root) == RemovedFrom(pre, root.id, {root.id})

\* the target of the delete call, as stored when the call was made
Target0 == FindById(Top.pre, Top.args.id)

\* C3: after delete, with the default options, of a bundle root that nothing
\* bundles has returned, the root is absent, so is every dependent
\* descendant whose bundling parents were all removed by the cascade, and
\* the result has deleted = true
C3_Cascade ==
  (/\ Called({"delete"})
   /\ Settled(Top)
   /\ Top.args.deleteBundle /\ ~Top.args.force
   /\ Target0 # NoDoc
   /\ IsBundle(Target0)
   /\ Parents(Target0) = {})
    => /\ Top.pc = "returned"
       /\ Top.result.deleted
       /\ \A h \in Removed(Top.pre, Target0) :
            /\ h \notin DOMAIN store
            /\ DocsById(store, ContentId(Top.pre[h])) = {}

\* a cascade through two levels has removed a document that two removed
\* bundles bundled
C3_Witness ==
  /\ Called({"delete"})
  /\ Top.pc = "returned"
  /\ Top.args.deleteBundle /\ ~Top.args.force
  /\ Target0 # NoDoc
  /\ Parents(Target0) = {}
  /\ \E h \in Removed(Top.pre, Target0) :
       /\ Cardinality(Parents(Top.pre[h])) = 2
       /\ h \notin DOMAIN store


\* delete of a stored target with deleteBundle = true that no constraint
\* stops has settled
Cascaded ==
  /\ Called({"delete"})
  /\ Settled(Top)
  /\ Top.args.deleteBundle
  /\ Target0 # NoDoc
  /\ (Top.args.force \/ Parents(Target0) = {})

\* the documents, other than the target, that the target bundled when the
\* call was made and that were not dependent
Independents ==
  {h \in DOMAIN Top.pre :
     /\ h # Target0.id
     /\ Top.args.id \in Parents(Top.pre[h])
     /\ ~Dependent(Top.pre[h])}

\* what C4 says of the state a call has reached
IndependentKept ==
  /\ (Called({"insert", "upsert"}) /\ Top.pc = "returned") =>
       \A i \in DOMAIN Contents(Top.args) :
         LET e == Contents(Top.args)[i]
             doc == FindById(store, e.credential.id)
         IN (/\ Has(e, "dependent") /\ e.dependent = FALSE
             /\ DocsById(Top.pre, e.credential.id) = {})
              => /\ doc # NoDoc
                 /\ ~Has(doc.meta, "dependent")
                 /\ Top.args.credential.id \in Parents(doc)
  /\ Cascaded =>
       /\ Top.pc = "returned"
       /\ \A h \in Independents :
            /\ h \in DOMAIN store
            /\ store[h].content = Top.pre[h].content
            /\ Top.args.id \notin Parents(store[h])
            /\ Parents(Top.pre[h]) = {Top.args.id} => ~Has(store[h].meta, "bundledBy")

\* no store call makes a stored independent document dependent
StaysSo ==
  \A h \in DOMAIN store \cap DOMAIN store' :
    ~Dependent(store[h]) => ~Dependent(store'[h])

\* C4: a new credential added as bundle content with dependent = false is
\* stored without meta.dependent and bundled by the parent; no later step
\* makes it dependent; and a document in that state is still stored after
\* delete of the parent has returned, with the parent's id gone from its
\* bundledBy (no bundledBy at all when the parent was its only parent)
C4_IndependentKept == []IndependentKept /\ [][StaysSo]_vars

\* delete of a bundle has returned, whose only content was independent and
\* bundled by nothing else
C4_Witness ==
  /\ Cascaded
  /\ Top.pc = "returned"
  /\ ~Top.args.force
  /\ \E h \in Independents :
       /\ Parents(Top.pre[h]) = {Top.args.id}
       /\ ~Has(Top.pre[h].meta, "special")
       /\ h \in DOMAIN store

\* the meta keys the upsert of a bundle entry supplies
Supplied(bundleId, e) == DOMAIN WrittenMeta(ChildArgs(bundleId, e))

\* every entry of `contents` that leaves dependent to its default and whose
\* credential was stored in `pre` as independent still is independent and
\* has lost no meta field, and so on below
RECURSIVE StaysIndependent(_, _, _, _)
StaysIndependent(pre, st, bundleId, contents) ==
  \A i \in DOMAIN contents :
    LET e == contents[i]
        old == FindById(pre, e.credential.id)
        doc == FindById(st, e.credential.id)
    IN /\ (/\ ~Has(e, "dependent")
           /\ old # NoDoc
           /\ ~Has(old.meta, "dependent"))
            => /\ doc # NoDoc
               /\ doc.id = old.id
               /\ doc.content = old.content
               /\ ~Has(doc.meta, "dependent")
               /\ DOMAIN old.meta \subseteq DOMAIN doc.meta
               /\ \A k \in DOMAIN old.meta \ Supplied(bundleId, e) :
                    doc.meta[k] = old.meta[k]
               /\ bundleId \in Parents(doc)
       /\ StaysIndependent(pre, st, e.credential.id, Contents(e))

\* C5: a credential stored as independent and then listed as bundle content
\* with the default dependent keeps its meta fields and stays independent;
\* delete of the bundle leaves a document in that state stored, its other
\* meta fields as they were, with the bundle's id removed from its bundledBy
C5_PreexistingKept ==
  /\ (Called({"insert", "upsert"}) /\ Top.pc = "returned") =>
       StaysIndependent(Top.pre, store, Top.args.credential.id, Contents(Top.args))
  /\ Cascaded =>
       \A h \in Independents :
         /\ h \in DOMAIN store
         /\ Top.args.id \notin Parents(store[h])
         /\ Without(store[h].meta, "bundledBy") = Without(Top.pre[h].meta, "bundledBy")

\* delete of a bundle has returned, which bundled a document that carries
\* the meta field it was first stored with
C5_Witness ==
  /\ Cascaded
  /\ Top.pc = "returned"
  /\ \E h \in Independents :
       /\ Has(Top.pre[h].meta, "special")
       /\ h \in DOMAIN store
       /\ Has(store[h].meta, "special")
       /\ ~Has(store[h].meta, "bundledBy")

\* the dependent documents that, when the delete was called, were bundled by
\* the target and by exactly one other stored document, which the cascade
\* does not remove
Shared ==
  {h \in DOMAIN Top.pre :
     /\ Dependent(Top.pre[h])
     /\ Top.args.id \in Parents(Top.pre[h])
     /\ Cardinality(Parents(Top.pre[h])) = 2
     /\ \A y \in Parents(Top.pre[h]) \ {Top.args.id} :
          /\ FindById(Top.pre, y) # NoDoc
          /\ FindById(Top.pre, y).id \notin Removed(Top.pre, Target0)}

\* the dependent documents the target alone bundled when the delete was
\* called
Sole ==
  {h \in DOMAIN Top.pre :
     /\ Dependent(Top.pre[h])
     /\ Parents(Top.pre[h]) = {Top.args.id}}

\* C6: a dependent child bundled by two parents is still stored after
\* delete of one of them, with bundledBy exactly the other parent; it is
\* deleted by the delete of its last remaining parent, whichever that is
C6_SharedChild ==
  (Cascaded /\ ~Top.args.force) =>
    /\ \A h \in Shared :
         /\ h \in DOMAIN store
         /\ BundledBy(store[h]) = SetDelete(BundledBy(Top.pre[h]), Top.args.id)
         /\ Len(BundledBy(store[h])) = 1
    /\ \A h \in Sole : h \notin DOMAIN store

\* delete of the second of the two parents of a shared child has returned:
\* the child, written when each parent was added and when the first was
\* deleted, is gone with it, and nothing is left of the three documents
C6_Witness ==
  /\ Cascaded
  /\ ~Top.args.force
  /\ Top.pc = "returned"
  /\ Top.args.id \in {"P1", "P2"}
  /\ nextId = 4
  /\ \E h \in Sole :
       /\ Top.pre[h].sequence = 2
       /\ DOMAIN Top.pre = {h, Target0.id}
  /\ DOMAIN store = {}

\* delete without force of a stored document that another one bundles
Member ==
  /\ Called({"delete"})
  /\ ~Top.args.force
  /\ Target0 # NoDoc
  /\ Len(BundledBy(Target0)) > 0

\* C7: delete without force of a stored document whose meta.bundledBy is
\* non-empty fails with ConstraintError, and at no point of the call is any
\* stored document written or deleted
C7_MemberConstraint ==
  Member =>
    /\ store = Top.pre
    /\ Settled(Top) => (Top.pc = "threw" /\ Top.error = "ConstraintError")

\* the refused target is a deep member with bundle contents of its own
C7_Witness ==
  /\ Member
  /\ Settled(Top)
  /\ Top.error = "ConstraintError"
  /\ IsBundle(Target0)
  /\ Len(FindByBundledBy(Top.pre, {Top.args.id})) > 0
  /\ \E c \in Parents(Target0) : FindById(store, c) # NoDoc

\* delete with deleteBundle = false and force = false of a stored document
\* that bundles at least one stored document
Kept ==
  /\ Called({"delete"})
  /\ ~Top.args.deleteBundle
  /\ ~Top.args.force
  /\ Target0 # NoDoc
  /\ Len(FindByBundledBy(Top.pre, {Top.args.id})) > 0

\* C8: delete with deleteBundle = false and force = false of a document with
\* at least one bundled sub-document fails with ConstraintError, and the
\* target and its bundle contents stay stored as they were
C8_BundleConstraint ==
  Kept =>
    /\ store = Top.pre
    /\ Settled(Top) => (Top.pc = "threw" /\ Top.error = "ConstraintError")

\* the refused target is bundled by nothing, so it is its bundle contents
\* that stop the delete
C8_Witness ==
  /\ Kept
  /\ Settled(Top)
  /\ Top.error = "ConstraintError"
  /\ Parents(Target0) = {}

\* the ids that bundle, directly or through other bundles, one of the ids S
RECURSIVE AncestorsOf(_, _)
AncestorsOf(pre, S) ==
  LET more == S \cup UNION {Parents(pre[h]) :
                             h \in {k \in DOMAIN pre : ContentId(pre[k]) \in S}}
  IN IF more = S THEN S ELSE AncestorsOf(pre, more)

\* delete with force of a stored document that another one bundles has
\* settled
Forced ==
  /\ Called({"delete"})
  /\ Top.args.force
  /\ Target0 # NoDoc
  /\ Parents(Target0) # {}
  /\ Settled(Top)

\* C9: delete with force = true of a document C that P bundles returns
\* deleted = true; C is absent afterwards, P and the ancestors of P that
\* were stored still are, and the bundle of P no longer lists C
C9_ForceMember ==
  Forced =>
    /\ Top.pc = "returned"
    /\ Top.result.deleted
    /\ DocsById(store, Top.args.id) = {}
    /\ \A h \in DOMAIN Top.pre :
         ContentId(Top.pre[h]) \in AncestorsOf(Top.pre, Parents(Target0))
           => h \in DOMAIN store /\ store[h] = Top.pre[h]
    /\ \A c \in Parents(Target0) :
         LET docs == GetBundle(store, c).retrievedDocs
         IN \A i \in DOMAIN docs : ContentId(docs[i]) # Top.args.id

\* a deep member was deleted with force: its parent and its parent's parent
\* are stored
C9_Witness ==
  /\ Forced
  /\ Top.pc = "returned"
  /\ \E c \in Parents(Target0) :
       /\ FindById(store, c) # NoDoc
       /\ \E d \in Parents(FindById(store, c)) : FindById(store, d) # NoDoc

\* delete with deleteBundle = false and force = true of a stored document
\* with a non-empty bundle
RootOnly ==
  /\ Called({"delete"})
  /\ ~Top.args.deleteBundle
  /\ Top.args.force
  /\ Target0 # NoDoc
  /\ Len(GetBundle(Top.pre, Top.args.id).retrievedDocs) > 0

\* C10: delete with deleteBundle = false and force = true of a bundle root
\* deletes the root alone: at no point of the call is any other document
\* written or deleted, and the result carries no bundle
C10_RootOnly ==
  RootOnly =>
    /\ \A h \in DOMAIN Top.pre \ {Target0.id} :
         h \in DOMAIN store /\ store[h] = Top.pre[h]
    /\ Settled(Top) =>
         /\ Top.pc = "returned"
         /\ Top.result.deleted
         /\ Top.result.bundle = FALSE
         /\ DocsById(store, Top.args.id) = {}

\* the root of a two-level bundle was deleted alone
C10_Witness ==
  /\ RootOnly
  /\ Settled(Top)
  /\ Top.result.deleted
  /\ Parents(Target0) = {}
  /\ Len(GetBundle(Top.pre, Top.args.id).retrievedDocs) > 1

\* delete of an id that no stored document has and that bundles nothing
Unknown ==
  /\ Called({"delete"})
  /\ Target0 = NoDoc
  /\ Len(FindByBundledBy(Top.pre, {Top.args.id})) = 0

\* C11: get of an id that no stored document has throws NotFoundError, and
\* delete of such an id, with no document bundled by it, writes nothing and
\* returns deleted = false
C11_Unknown ==
  /\ (Called({"get"}) /\ DocsById(store, Top.args.id) = {})
       => (Top.pc = "threw" /\ Top.error = "NotFoundError")
  /\ Unknown =>
       /\ store = Top.pre
       /\ Settled(Top) =>
            /\ Top.pc = "returned"
            /\ Top.result.deleted = FALSE
            /\ Top.result.doc = NoDoc

\* a delete of an id that was deleted before has returned, other documents
\* being stored
C11_Witness ==
  /\ Unknown
  /\ Top.pc = "returned"
  /\ Top.result.deleted = FALSE
  /\ nextId > 1
  /\ DOMAIN store # {}

\* every id in a bundledBy of `st` is the content.id of a document of `st`
\* that is a bundle
WellLinked(st) ==
  \A h \in DOMAIN st : \A c \in Parents(st[h]) :
    FindById(st, c) # NoDoc /\ IsBundle(FindById(st, c))

\* a call that writes has completed and no other is in flight
Completed == Called({"insert", "upsert", "delete"}) /\ Quiet

\* the completed call was a delete with force
Forcing == Top.op = "delete" /\ Top.args.force

Flagged(st) ==
  \A h \in DOMAIN st :
    (Has(st[h].meta, "bundle") /\ st[h].meta.bundle = TRUE)
      <=> (\E k \in DOMAIN st : ContentId(st[h]) \in Parents(st[k]))

ContentTasks == {p \in DOMAIN tasks : Len(p) > 1}

\* the top-level write of the call has succeeded
TopWritten ==
  /\ Top.result # NoDoc
  /\ Top.result.id \in DOMAIN store
  /\ ContentId(store[Top.result.id]) = Top.args.credential.id

\* C14: a write of a bundle content document is issued only after the write
\* of the document that bundles it has succeeded; a call whose top-level
\* write fails writes no content document and leaves the store as it was;
\* a call that fails while the contents are written stays failed, and the
\* top-level document, written already, stays stored as it was written.
C14_TopFirst ==
  Called({"insert", "upsert"}) =>
    /\ \A p \in ContentTasks :
         LET q == tasks[Parent(p)]
         IN /\ q.pc \in {"addBundleContents", "returned", "threw"}
            /\ q.result # NoDoc
            /\ q.result.id \in DOMAIN store
            /\ ContentId(store[q.result.id]) = q.args.credential.id
    /\ (Top.pc = "threw" /\ Top.result = NoDoc) =>
         (store = Top.pre /\ ContentTasks = {})
    /\ (Top.pc = "threw" /\ Top.result # NoDoc) =>
         (TopWritten /\ store[Top.result.id] = Top.result)

\* the top-level document of a bundle was written, then the write of a
\* content document failed: the call has thrown, the top-level document is
\* stored; and the store grew by it
C14_Witness ==
  /\ Called({"upsert"})
  /\ Quiet
  /\ Top.pc = "threw"
  /\ Top.error = "StoreError"
  /\ TopWritten
  /\ Top.result.id \notin DOMAIN Top.pre
  /\ \E p \in ContentTasks : tasks[p].pc = "threw" /\ tasks[p].result = NoDoc

\* every operation that attempt t of a delete scheduled on the bundle
\* closure has taken effect in store st
AllDone(st, t) ==
  \A i \in DOMAIN t.plan.opOrder :
    LET k == t.plan.opOrder[i]
        d == t.plan.docs[k]
    IN IF t.plan.opType[k] = "delete"
         THEN d.id \notin DOMAIN st
         ELSE d.id \in DOMAIN st /\ st[d.id].meta = d.meta

\* a delete with deleteBundle = true is in flight
Cascading == Called({"delete"}) /\ Top.args.deleteBundle

\* this step removes the target of the delete from the store
TargetDeleted ==
  /\ Cascading
  /\ Top.doc # NoDoc
  /\ Top.doc.id \in DOMAIN store
  /\ Top.doc.id \notin DOMAIN store'

\* an operation of the cascade has failed in the attempt, or the attempt
\* has thrown: the target is stored as the attempt read it
TargetKept ==
  (Cascading /\ Top.doc # NoDoc /\ (Top.errors # <<>> \/ Top.pc = "threw")) =>
    (Top.doc.id \in DOMAIN store /\ store[Top.doc.id] = Top.doc)

\* C15: within one attempt of a delete with deleteBundle = true the target
\* document is deleted only by the last store call of the attempt, after
\* every unlink and delete scheduled on its bundle closure has taken effect
\* without an error; if one of them fails the target is not deleted.
C15_TargetLast ==
  /\ []TargetKept
  /\ [][TargetDeleted =>
          /\ Top.pc = "delete"
          /\ Top.pending = <<>>
          /\ Top.errors = <<>>
          /\ AllDone(store, Top)
          /\ tasks'[<<1>>].pc = "returned"]_vars

\* a cascade of at least three operations has run and the target is gone
C15_Witness ==
  /\ Cascading
  /\ Top.pc = "returned"
  /\ Top.result.deleted
  /\ Len(Top.plan.opOrder) >= 3
  /\ \E i \in DOMAIN Top.plan.opOrder :
       Top.plan.opType[Top.plan.opOrder[i]] = "update"
  /\ AllDone(store, Top)
  /\ Top.doc.id \notin DOMAIN store

\* an operation of a cascade has failed and the attempt has thrown with the
\* target stored, after another operation of the cascade took effect
FailedCascade ==
  /\ Cascading
  /\ Top.pc = "threw"
  /\ Top.error \in {"AggregateError", "StoreError"}
  /\ Top.doc.id \in DOMAIN store
  /\ store # Top.pre

\* the documents of the bundle closure of the target, as stored before the
\* delete that failed
Closure0 ==
  LET docs == GetBundle(Top.pre, Top.args.id).retrievedDocs
  IN {docs[i].id : i \in DOMAIN docs}

\* a dependent document that is stored while none of its bundling parents is
Orphaned(st, h) ==
  /\ h \in DOMAIN st
  /\ Dependent(st[h])
  /\ \A c \in Parents(st[h]) : FindById(st, c) = NoDoc

\* C16: a delete of a bundle root was aborted by a store failure in its
\* cascade and the caller has made the same call again, with no failure
\* and nothing concurrent: once that call has settled it has returned, the
\* root is absent, and no dependent document of the root's original closure
\* is stored without a stored bundling parent.
C16_Converges ==
  (/\ Called({"delete"})
   /\ Again
   /\ Settled(Top)
   /\ Target0 # NoDoc
   /\ IsBundle(Target0)
   /\ Parents(Target0) = {})
    => /\ Top.pc = "returned"
       /\ DocsById(store, Top.args.id) = {}
       /\ \A h \in Closure0 : ~Orphaned(store, h)

\* a store call of the non-bundle operations of the delete in flight has
\* failed with NotFoundError
NotFoundSeen ==
  \E i \in DOMAIN Top.errors : Top.errors[i] = "NotFoundError"

\* C17: a delete in which a store call failed with NotFoundError, another
\* client having deleted the document, returns a {deleted, doc, bundle}
\* result and does not throw.
C17_NotFoundReturns ==
  (Called({"delete"}) /\ NotFoundSeen /\ Settled(Top)) =>
    (Top.pc = "returned" /\ Top.result # NoResult)

\* the upsert calls in flight, top-level or made for bundle contents
Upserts == {p \in DOMAIN tasks : tasks[p].op = "upsert"}

\* the position of an upsert in its loop: two per write attempt made, one
\* more while the failed write is looked up, and past them all once the
\* loop is left
Measure(t) ==
  IF t.pc = "update" THEN 2 * t.i
  ELSE IF t.pc = "get" THEN 2 * t.i + 1
  ELSE 2 * retries + 1

\* task p stands before write attempt t.i + 1 (pc = "update") or has made
\* it (pc = "get"): no more than `retries` attempts, and a call that threw
\* too-many-retries made all of them, wrote nothing and added no contents
AttemptsBounded ==
  \A p \in Upserts :
    LET t == tasks[p]
    IN /\ t.i <= retries
       /\ t.pc \in {"update", "get"} => t.i < retries
       /\ (t.pc = "threw" /\ t.error = "TooManyRetries") =>
            /\ t.i = retries
            /\ t.result = NoDoc
            /\ \A q \in DOMAIN tasks : Len(q) > 1 => Parent(q) # p

\* C18: an upsert makes at most 10 write attempts for its document whatever
\* conflicts other clients cause; after 10 failed attempts it throws the
\* too-many-retries error and adds no bundle contents; every step of its
\* loop brings it nearer to the end of the loop, so it terminates.
C18_BoundedRetries ==
  /\ []AttemptsBounded
  /\ [][\A p \in Upserts :
          (tasks[p].pc \in {"update", "get"} /\ tasks'[p] # tasks[p]) =>
            (p \in DOMAIN tasks' /\ Measure(tasks'[p]) > Measure(tasks[p]))]_vars

\* ten write attempts of a top-level upsert have failed because of other
\* clients' updates; the call has thrown and its bundle contents are not
\* written
C18_Witness ==
  /\ Called({"upsert"})
  /\ Top.pc = "threw"
  /\ Top.error = "TooManyRetries"
  /\ Top.i = retries
  /\ Len(Top.args.bundleContents) > 0
  /\ ContentTasks = {}
  /\ FindById(store, "P1") # NoDoc
  /\ FindById(store, "P1").sequence >= retries - 1

\* the store call the delete in flight makes next fails its attempt with
\* InvalidStateError: the delete of the target, the next serial bundle
\* operation, or the last of the concurrent non-bundle operations when
\* every error collected is an InvalidStateError
StaleAttempt ==
  IF Top.pc = "delete"
    THEN EdvDelete(store, Top.doc).name = "InvalidStateError"
  ELSE IF Top.pc = "bundleOps"
    THEN RunOp(store, nextId, Top.plan, Head(Top.sorted)).name = "InvalidStateError"
  ELSE IF Top.pc = "nonBundleOps" /\ Len(Top.pending) = 1
    THEN LET name == RunOp(store, nextId, Top.plan, Top.pending[1]).name
             errors == IF name = "ok" THEN Top.errors ELSE Append(Top.errors, name)
         IN /\ errors # <<>>
            /\ \A i \in DOMAIN errors : errors[i] = "InvalidStateError"
  ELSE FALSE

\* the step starts the next attempt of the delete in flight: nothing read
\* by the attempt before is kept, the target and the bundle are to be read
Restarts ==
  /\ tasks'[<<1>>].attempt = Top.attempt + 1
  /\ tasks'[<<1>>].pc = "load"
  /\ tasks'[<<1>>].doc = NoDoc
  /\ ~tasks'[<<1>>].docLoaded
  /\ tasks'[<<1>>].g = GetBundleInit(Top.args.id)
  /\ tasks'[<<1>>].plan = PlanInit(GetBundleInit(Top.args.id), Top.args.id)
  /\ tasks'[<<1>>].errors = <<>>
  /\ store' = store

\* no delete has ended with InvalidStateError
NotSurfaced ==
  Called({"delete"}) => Top.error # "InvalidStateError"

\* C19: delete never ends with InvalidStateError; an attempt that fails
\* with it, at the delete of the target, at a serial bundle operation, or
\* at the concurrent non-bundle operations when all that failed did so with
\* it, is followed by a new attempt that reads the target and the bundle
\* closure again.
C19_StaleRetried ==
  /\ []NotSurfaced
  /\ [][(Called({"delete"}) /\ tasks'[<<1>>] # Top /\ StaleAttempt) => Restarts]_vars
  /\ [][(Called({"delete"}) /\ tasks'[<<1>>].op = "delete"
           /\ tasks'[<<1>>].attempt # Top.attempt /\ Top.pc # "returned"
           /\ Top.pc # "threw")
          => (StaleAttempt /\ Restarts)]_vars

\* a delete has returned on its fourth attempt, after other clients'
\* updates made three attempts fail, and the bundle is gone
C19_Witness ==
  /\ Called({"delete"})
  /\ Top.pc = "returned"
  /\ Top.result.deleted
  /\ Top.attempt >= 4
  /\ Len(Top.plan.opOrder) >= 2
  /\ Top.doc # NoDoc
  /\ AllDone(store, Top)
  /\ Top.doc.sequence >= 1

\* C20: a delete whose attempts keep failing with stale-version conflicts
\* makes a bounded number of attempts, the `retries` of upsert, and then
\* ends with a failure: it never starts an attempt beyond them.
C20_BoundedAttempts ==
  Called({"delete"}) => Top.attempt <= retries

\* the document of the id the upsert in flight was called with: as stored
\* when the call was made, and as stored now
Old == FindById(Top.pre, Top.args.credential.id)
New == FindById(store, Top.args.credential.id)

\* an upsert of an id that was stored when the call was made has returned
Updated(mutator) ==
  /\ Called({"upsert"})
  /\ Top.pc = "returned"
  /\ Top.args.mutator = mutator
  /\ Old # NoDoc

\* the caller supplied meta.dependent = false
SuppliedIndependent ==
  Has(Top.args.meta, "dependent") /\ Top.args.meta.dependent = FALSE

\* C21: an upsert with the default mutator of an id already stored leaves
\* the stored content as it was, also when the credential supplied differs;
\* the meta keys supplied (other than bundledBy and dependent) are stored
\* with the values supplied, the other keys stay; bundledBy is the union of
\* the stored and the supplied ids; dependent is as it was unless the
\* caller supplied dependent = false.
C21_DefaultMerges ==
  Updated("default") =>
    /\ New # NoDoc
    /\ New.id = Old.id
    /\ New.content = Old.content
    /\ \A k \in DOMAIN Top.args.meta \ {"bundledBy", "dependent"} :
         Has(New.meta, k) /\ New.meta[k] = Top.args.meta[k]
    /\ \A k \in DOMAIN Old.meta \ (DOMAIN WrittenMeta(Top.args) \cup {"dependent"}) :
         Has(New.meta, k) /\ New.meta[k] = Old.meta[k]
    /\ Parents(New) =
         Parents(Old) \cup
           (IF Has(Top.args.meta, "bundledBy")
              THEN SeqToSet(Top.args.meta.bundledBy) ELSE {})
    /\ ~SuppliedIndependent =>
         /\ Has(New.meta, "dependent") <=> Has(Old.meta, "dependent")
         /\ Has(Old.meta, "dependent") => New.meta.dependent = Old.meta.dependent

\* a stored credential, dependent and bundled by P1, was upserted with
\* other content, a note and the parent P2: the content is the old one,
\* the note is stored, both parents are
C21_Witness ==
  /\ Updated("default")
  /\ Top.args.credential # Old.content
  /\ Has(Old.meta, "dependent")
  /\ Parents(Old) = {"P1"}
  /\ Parents(New) = {"P1", "P2"}
  /\ Has(New.meta, "note")
  /\ ~Has(Old.meta, "note")
  /\ New.sequence = Old.sequence + 1

\* C22: an upsert with mutator = false of an id already stored replaces
\* content and meta: the stored content is the credential supplied and the
\* stored meta is the meta supplied with the issuer and the bundle flag
\* filled in, so every other key that was stored, bundledBy and dependent
\* among them, is gone.
C22_Overwrites ==
  Updated("false") =>
    /\ New # NoDoc
    /\ New.id = Old.id
    /\ New.content = Top.args.credential
    /\ New.meta = WrittenMeta(Top.args)
    /\ DOMAIN New.meta = DOMAIN Top.args.meta \cup {"issuer"} \cup
                           (IF Len(Contents(Top.args)) > 0 THEN {"bundle"} ELSE {})

\* a stored credential, dependent and bundled, was upserted with mutator =
\* false, other content and empty meta: bundledBy and dependent are gone
C22_Witness ==
  /\ Updated("false")
  /\ Top.args.credential # Old.content
  /\ Has(Old.meta, "dependent")
  /\ Has(Old.meta, "bundledBy")
  /\ ~Has(New.meta, "dependent")
  /\ ~Has(New.meta, "bundledBy")
  /\ New.content # Old.content

\* the call lists credential c in its bundleContents
Lists(args, c) ==
  \E i \in DOMAIN Contents(args) : Contents(args)[i].credential.id = c

\* the two concurrent upserts were of two bundles that both list c, and
\* both have returned
BothBundled(c) ==
  /\ \A slot \in Callers :
       /\ <<slot>> \in DOMAIN tasks
       /\ tasks[<<slot>>].pc = "returned"
       /\ Lists(tasks[<<slot>>].args, c)
  /\ tasks[<<1>>].args.credential.id # tasks[<<2>>].args.credential.id

\* C23: two bundles that both list the child c were upserted concurrently
\* and both calls have returned: the stored c is bundled by both, whatever
\* the interleaving of their store calls was.
C23_BothParents ==
  \A c \in CredIds :
    BothBundled(c) =>
      /\ Cardinality(DocsById(store, c)) = 1
      /\ \A slot \in Callers :
           tasks[<<slot>>].args.credential.id \in Parents(FindById(store, c))

\* one of the bundles lists the child twice, directly and in a sub-bundle,
\* so three upserts of the child raced: one of them lost the creation
\* (DuplicateError) and then made a stale update (InvalidStateError)
C23_Witness ==
  \E c \in CredIds :
    /\ BothBundled(c)
    /\ \A slot \in Callers : DocsById(tasks[<<slot>>].pre, c) = {}
    /\ \E p \in DOMAIN tasks :
         /\ Len(p) = 2
         /\ tasks[p].args.credential.id = c
         /\ tasks[p].i >= 2
         /\ tasks[p].pc = "returned"
    /\ Cardinality(Parents(FindById(store, c))) = 3

\* a delete by EDV document id has settled
DeletedByDocId ==
  /\ Called({"delete"})
  /\ Has(Top.args, "docId")
  /\ Settled(Top)

\* C24: a delete given only docId, of a stored credential that has no
\* content.id and is bundled by nothing, deletes the document and returns
\* deleted = true; a delete of a docId that is not stored returns
\* deleted = false.
C24_ByDocId ==
  DeletedByDocId =>
    /\ (/\ Top.args.docId \in DOMAIN Top.pre
        /\ ~Has(Top.pre[Top.args.docId].content, "id")
        /\ Parents(Top.pre[Top.args.docId]) = {})
         => /\ Top.pc = "returned"
            /\ Top.result.deleted
            /\ Top.args.docId \notin DOMAIN store
    /\ Top.args.docId \notin DOMAIN Top.pre
         => /\ Top.pc = "returned"
            /\ ~Top.result.deleted
            /\ store = Top.pre

\* x is not an array of objects, here or at a nested level, or an entry of
\* it defines bundleContents and has no credential.id
RECURSIVE BadContents(_)
BadContents(x) ==
  IF ~IsArray(x) THEN TRUE
  ELSE \E i \in DOMAIN x :
         IF ~IsObject(x[i]) THEN TRUE
         ELSE /\ Has(x[i], "bundleContents")
              /\ \/ BadContents(x[i].bundleContents)
                 \/ ~Has(x[i].credential, "id")

\* the arguments of the write call in flight are malformed
Malformed ==
  \/ Has(Top.args, "bundleContents") /\ BadContents(Top.args.bundleContents)
  \/ Top.op = "upsert" /\ ~Has(Top.args.credential, "id")
  \/ /\ ~Has(Top.args.meta, "issuer")
     /\ \/ ~Has(Top.args.credential, "issuer")
        \/ Top.args.credential.issuer = MalformedIssuer

\* C25: insert and upsert reject malformed arguments (bundleContents that
\* is not an array of objects at some nesting level, an entry that defines
\* bundleContents without a credential.id, no credential.id for upsert, a
\* missing or malformed issuer) before they make a store call: the call
\* has thrown, the store is as it was, and nothing was retried or added.
C25_RejectedFirst ==
  (Called({"insert", "upsert"}) /\ Malformed) =>
    /\ Top.pc = "threw"
    /\ Top.error \in {"TypeError", "Error"}
    /\ Top.i = 0
    /\ Top.result = NoDoc
    /\ ContentTasks = {}
    /\ store = Top.pre

\* the documents of store `st` reachable from `root` by following bundledBy
\* links downward through bundle documents, the root's own document left
\* out: the least set S with h in S whenever a parent of st[h] is the root
\* or the id of a bundle document in S
RECURSIVE Downward(_, _, _)
Downward(st, root, S) ==
  LET ids == {root} \cup {st[h].content.id : h \in {x \in S : IsBundle(st[x])}}
      next == {h \in DOMAIN st :
                 st[h].content.id # root /\ Parents(st[h]) \cap ids # {}}
  IN IF next = S THEN S ELSE Downward(st, root, next)

\* the bundle nodes of the closure: the root and the bundle documents
\* reachable from it
BundleNodes(st, root) ==
  {root} \cup {st[h].content.id :
                 h \in {x \in Downward(st, root, {}) : IsBundle(st[x])}}

\* a getBundle call of a stored bundle root has returned
BundleRead ==
  Called({"getBundle"}) /\ Top.pc = "returned" /\ Top.found

\* C26: with no concurrent writer, getBundle of a bundle root returns in
\* allSubDocuments the documents reachable downward from the root through
\* bundle documents, each stored document once and never the root, and a
\* tree that has one node for the root and for each bundle document of the
\* closure, each node listing exactly the documents whose bundledBy holds
\* its id.
C26_Closure ==
  BundleRead =>
    LET all == Top.result.allSubDocuments
        contents == Top.result.bundle.contents
        root == Top.args.id
    IN /\ {all[k].id : k \in DOMAIN all} = Downward(store, root, {})
       /\ \A k \in DOMAIN all : all[k] = store[all[k].id]
       /\ \A j, k \in DOMAIN all : all[j].id = all[k].id => j = k
       /\ \A k \in DOMAIN all : all[k].content.id # root
       /\ Top.result.bundle.id = root
       /\ DOMAIN contents = BundleNodes(store, root)
       /\ \A b \in DOMAIN contents : \A k \in DOMAIN all :
            (k \in SeqToSet(contents[b])) <=> (b \in Parents(all[k]))

\* a bundle was read whose tree has at least three nodes and holds a
\* document listed under two of them
C26_Witness ==
  /\ BundleRead
  /\ Cardinality(DOMAIN Top.result.bundle.contents) >= 3
  /\ \E k \in DOMAIN Top.result.allSubDocuments :
       Cardinality({b \in DOMAIN Top.result.bundle.contents :
                      k \in SeqToSet(Top.result.bundle.contents[b])}) >= 2

\* a bundle was read whose root document is itself bundled by a document
\* of the closure, and is not returned
C26_WitnessCycle ==
  /\ BundleRead
  /\ Parents(Top.doc) \cap DOMAIN Top.result.bundle.contents # {}
  /\ Top.result.allSubDocuments # <<>>

\* upsert p makes the re-fetch that follows a conflict and finds no document
GoneStep(p) ==
  /\ tasks[p].op = "upsert"
  /\ tasks[p].pc = "get"
  /\ FindById(store, tasks[p].args.credential.id) = NoDoc
  /\ tasks'[p].pc # "get"

\* upsert p makes the next pass of the loop as a creation
RetriesAsNew(p) ==
  /\ tasks'[p].pc = "update"
  /\ tasks'[p].isNew
  /\ tasks'[p].i = tasks[p].i + 1

\* C27 as stated: whenever the re-fetch that follows a duplicate-key or
\* stale-version conflict finds no document, upsert treats the credential
\* as new and retries creating it, after a failed creation as well as
\* after a failed update (as long as a pass of the loop is left).
C27_RetriedAsNew ==
  [][\A p \in DOMAIN tasks :
       (GoneStep(p) /\ tasks[p].i + 1 < retries) => RetriesAsNew(p)]_vars

\* C27, amended: when the re-fetch finds no document, upsert retries
\* creating the credential if the failed attempt was an update, and throws
\* the DuplicateError of the attempt if that attempt was a creation.
C27_RetriedAfterUpdate ==
  [][\A p \in DOMAIN tasks :
       GoneStep(p) =>
         IF tasks[p].isNew
           THEN /\ tasks[p].error = "DuplicateError"
                /\ tasks'[p].pc = "threw"
                /\ tasks'[p].error = "DuplicateError"
                /\ tasks'[p].i = tasks[p].i
         ELSE /\ tasks[p].error = "InvalidStateError"
              /\ tasks[p].i + 1 < retries => RetriesAsNew(p)]_vars

\* an update met a stale version, the re-fetch found nothing, and the
\* creation that was retried stored the credential
C27_Witness ==
  /\ Called({"upsert"})
  /\ Top.pc = "returned"
  /\ Top.isNew
  /\ Top.i >= 2
  /\ FindById(store, Top.args.credential.id) # NoDoc

\* a creation met a duplicate, the re-fetch found nothing, and the call
\* threw the DuplicateError although the credential is not stored
C27_WitnessThrown ==
  /\ Called({"upsert"})
  /\ Top.pc = "threw"
  /\ Top.error = "DuplicateError"
  /\ FindById(store, Top.args.credential.id) = NoDoc

\* the delete call in flight has planned a cascade
Planned == Called({"delete"}) /\ Top.plan.opOrder # <<>>

\* the documents the cascade has an operation for, as indexes into the
\* documents loaded
Ops == DOMAIN Top.plan.opType

\* the parents of document k, as it was loaded, that the cascade does not
\* remove
Remaining(k) == Parents(Top.plan.loaded[k]) \ Top.plan.processedBundles

\* the meta of the document says dependent: false
ExplicitlyIndependent(doc) ==
  Has(doc.meta, "dependent") /\ doc.meta.dependent = FALSE

\* document k is scheduled for deletion and, when it is a bundle, the
\* cascade has gone through its contents
DeletedAndRecursed(k) ==
  /\ Top.plan.opType[k] = "delete"
  /\ IsBundle(Top.plan.loaded[k]) =>
       Top.plan.loaded[k].content.id \in Top.plan.processedBundles

\* C28 as stated: in a cascade a child left with no remaining parents is
\* scheduled for deletion whenever its dependent flag is not explicitly
\* false, a child without a dependent field included, and the cascade
\* recurses into its sub-bundle.
C28_DeletedUnlessFalse ==
  Planned =>
    \A k \in Ops :
      (Remaining(k) = {} /\ ~ExplicitlyIndependent(Top.plan.loaded[k]))
        => DeletedAndRecursed(k)

\* C28, amended: a child left with no remaining parents is scheduled for
\* deletion, and its sub-bundle gone through, when its meta.dependent is
\* true; a child whose meta has no dependent field is scheduled for an
\* update only.
C28_DeletedWhenDependent ==
  Planned =>
    \A k \in Ops :
      Remaining(k) = {} =>
        /\ Dependent(Top.plan.loaded[k]) => DeletedAndRecursed(k)
        /\ ~Has(Top.plan.loaded[k].meta, "dependent") =>
             Top.plan.opType[k] = "update"

\* a cascade leaves without parents a dependent sub-bundle, deleted with
\* its contents gone through, and a document with no dependent field,
\* which is updated
C28_Witness ==
  /\ Planned
  /\ \E k \in Ops :
       /\ Remaining(k) = {}
       /\ Dependent(Top.plan.loaded[k])
       /\ IsBundle(Top.plan.loaded[k])
       /\ Top.plan.opType[k] = "delete"
       /\ \E j \in Ops :
            Top.plan.loaded[k].content.id \in Parents(Top.plan.loaded[j])
  /\ \E k \in Ops :
       /\ Remaining(k) = {}
       /\ ~Has(Top.plan.loaded[k].meta, "dependent")
       /\ Top.plan.opType[k] = "update"

\* the documents the cascade loaded, by document id
LoadedStore ==
  [h \in {Top.plan.loaded[k].id : k \in DOMAIN Top.plan.loaded} |->
     Top.plan.loaded[CHOOSE k \in DOMAIN Top.plan.loaded :
                       Top.plan.loaded[k].id = h]]

\* the documents bundled only through document k: reachable from the
\* target through bundles, and no longer so once k is taken away
Behind(k) ==
  (Downward(LoadedStore, Top.id, {})
     \ Downward(Remove(LoadedStore, Top.plan.loaded[k].id), Top.id, {}))
    \ {Top.plan.loaded[k].id}

\* the cascade has an operation for the document with id h
Scheduled(h) == \E j \in Ops : Top.plan.loaded[j].id = h

\* the delete call in flight has returned after its cascade
CascadeDone == Planned /\ Top.pc = "returned" /\ Top.result.deleted

\* C29: in a cascade a child that keeps a parent outside the set being
\* removed is only updated, the update dropping the removed parents from
\* its bundledBy and changing nothing else, and when the child is a bundle
\* no document bundled only through it gets an operation; once the call
\* has returned the child is stored with the parents it keeps and the
\* documents behind it are stored as they were.
C29_KeptOnlyUpdated ==
  Planned =>
    \A k \in Ops :
      Remaining(k) # {} =>
        LET was == Top.plan.loaded[k]
            now == Top.plan.docs[k]
        IN /\ Top.plan.opType[k] = "update"
           /\ Parents(now) = Remaining(k)
           /\ now = [was EXCEPT !.meta = With(was.meta, "bundledBy", now.meta.bundledBy)]
           /\ was.content.id \notin Top.plan.processedBundles
           /\ \A h \in Behind(k) : ~Scheduled(h)
           /\ CascadeDone =>
                /\ was.id \in DOMAIN store
                /\ store[was.id].meta = now.meta
                /\ store[was.id].content = was.content
                /\ \A h \in Behind(k) : h \in DOMAIN store /\ store[h] = LoadedStore[h]

\* a cascade has returned that left a sub-bundle with a parent outside the
\* removed set: the sub-bundle lost one of two parents and a document is
\* bundled only through it
C29_Witness ==
  /\ CascadeDone
  /\ \E k \in Ops :
       /\ Remaining(k) # {}
       /\ Parents(Top.plan.loaded[k]) # Remaining(k)
       /\ IsBundle(Top.plan.loaded[k])
       /\ Behind(k) # {}

\* the parents of document k that the cascade removes
Dropped(k) == Parents(Top.plan.loaded[k]) \cap Top.plan.processedBundles

\* the sequence s holds no element twice
NoRepeats(s) == \A i, j \in DOMAIN s : s[i] = s[j] => i = j

\* C30: in one cascade attempt every stored document has at most one
\* operation, also when several bundles of the closure list it; the
\* operation is a delete exactly when the cascade removes all parents of
\* the document and the document is dependent, and otherwise one update
\* that drops all removed parents together. Once the call has returned a
\* deleted document is gone and an updated one was written exactly once.
C30_OneOperation ==
  Planned =>
    /\ NoRepeats(Top.plan.opOrder)
    /\ SeqToSet(Top.plan.opOrder) = Ops
    /\ \A j, k \in Ops : Top.plan.loaded[j].id = Top.plan.loaded[k].id => j = k
    /\ NoRepeats(Top.pending \o Top.sorted)
    /\ SeqToSet(Top.pending) \cup SeqToSet(Top.sorted) \subseteq Ops
    /\ \A k \in Ops :
         LET was == Top.plan.loaded[k]
             now == Top.plan.docs[k]
         IN /\ SeqToSet(Top.plan.before[k]) = Dropped(k)
            /\ Top.plan.opType[k] = "delete"
                 <=> (Remaining(k) = {} /\ Dependent(was))
            /\ Top.plan.opType[k] = "update" => Parents(now) = Remaining(k)
            /\ CascadeDone =>
                 IF Top.plan.opType[k] = "delete"
                   THEN was.id \notin DOMAIN store
                   ELSE /\ was.id \in DOMAIN store
                        /\ store[was.id].sequence = was.sequence + 1
                        /\ store[was.id].meta = now.meta

\* a cascade has returned in which one document was listed by two bundles
\* of the closure and got one update that dropped both
C30_Witness ==
  /\ CascadeDone
  /\ \E k \in Ops :
       /\ Cardinality(Dropped(k)) >= 2
       /\ Top.plan.opType[k] = "update"
       /\ store[Top.plan.loaded[k].id].sequence = Top.plan.loaded[k].sequence + 1

\* a cascade has returned in which one document was listed by two bundles
\* of the closure and was deleted
C30_WitnessDeleted ==
  /\ CascadeDone
  /\ \E k \in Ops :
       /\ Cardinality(Dropped(k)) >= 2
       /\ Top.plan.opType[k] = "delete"
       /\ Top.plan.loaded[k].id \notin DOMAIN store

\* the operation the cascade planned for document k has taken effect in
\* store st
Applied(st, k) ==
  LET h == Top.plan.loaded[k].id
  IN IF Top.plan.opType[k] = "delete" THEN h \notin DOMAIN st
     ELSE h \in DOMAIN st /\ st[h].meta = Top.plan.docs[k].meta

\* the ids of the documents that differ between stores s1 and s2
Differ(s1, s2) ==
  {h \in DOMAIN s1 \cup DOMAIN s2 :
     \/ h \notin DOMAIN s1
     \/ h \notin DOMAIN s2
     \/ s1[h] # s2[h]}

\* the step changes the stored document of a bundle operation of the
\* cascade, or is taken by the call while it runs its bundle operations
BundleOpStep ==
  /\ Planned
  /\ \/ Top.pc = "bundleOps" /\ tasks'[<<1>>] # Top
     \/ /\ Top.pc \in {"nonBundleOps", "bundleOps"}
        /\ \E k \in SeqToSet(BundleOps(Top.plan)) :
             Top.plan.loaded[k].id \in Differ(store, store')

\* C31: in a cascade an operation on a bundle document starts only when
\* every operation on a non-bundle document has completed successfully;
\* the bundle operations run one at a time in the sorted order, and a
\* failing one ends the call with no further operation.
C31_BundlesAfterOthers ==
  [][BundleOpStep =>
       LET k == Head(Top.sorted)
           after == tasks'[<<1>>]
       IN /\ Top.pc = "bundleOps"
          /\ Top.pending = <<>>
          /\ Top.errors = <<>>
          /\ \A j \in SeqToSet(NonBundleOps(Top.plan)) : Applied(store, j)
          /\ Differ(store, store') \subseteq {Top.plan.loaded[k].id}
          /\ IF store' = store
               THEN after.pc = "threw" /\ after.sorted = Top.sorted
               ELSE /\ Applied(store', k)
                    /\ after.pc \in {"bundleOps", "delete"}
                    /\ after.pc = "bundleOps" => after.sorted = Tail(Top.sorted)
                    /\ after.pc = "delete" => Tail(Top.sorted) = <<>>]_vars

\* a cascade with a non-bundle operation and several bundle operations
\* has run its first bundle operation and waits to run the next
C31_Witness ==
  /\ Planned
  /\ Top.pc = "bundleOps"
  /\ Len(NonBundleOps(Top.plan)) >= 1
  /\ Len(Top.sorted) >= 1
  /\ Len(Top.sorted) < Len(BundleOps(Top.plan))

\* a bundle operation failed while others were still to run, and the call
\* threw
C31_WitnessStopped ==
  /\ Planned
  /\ Top.pc = "threw"
  /\ Top.error = "StoreError"
  /\ Top.pending = <<>>
  /\ Top.errors = <<>>
  /\ Len(Top.sorted) >= 2

\* C32: for any bundle closure the serial order of the bundle operations
\* respects the before relation: when the id of bundle A is in the before
\* set of sub-bundle B and both have operations, the operation of B runs
\* before the operation of A.
C32_OrderRespectsBefore ==
  Planned =>
    \A i, j \in DOMAIN Top.sorted :
      i < j => ContentId(Top.plan.docs[Top.sorted[i]])
                 \notin SeqToSet(Top.plan.before[Top.sorted[j]])

\* the bundle operations wait in an order in which a bundle comes before
\* one of its sub-bundles, the comparator giving 0 for the first and the
\* last of three nested sub-bundles
C32_Inverted ==
  /\ Planned
  /\ Top.pc \in {"nonBundleOps", "bundleOps"}
  /\ ~Consistent(Top.plan, BundleOps(Top.plan))
  /\ \E i, j \in DOMAIN Top.sorted :
       /\ i < j
       /\ ContentId(Top.plan.docs[Top.sorted[i]])
            \in SeqToSet(Top.plan.before[Top.sorted[j]])

\* every failure in the sequence is a stale-version conflict
AllStale(errors) == \A i \in DOMAIN errors : errors[i] = "InvalidStateError"

\* the last of the concurrent non-bundle operations of the cascade settles
LastOpStep ==
  /\ Planned
  /\ Top.pc = "nonBundleOps"
  /\ Len(Top.pending) = 1
  /\ tasks'[<<1>>] # Top

\* the delete call starts its next attempt
Restarted ==
  /\ tasks'[<<1>>].attempt = Top.attempt + 1
  /\ tasks'[<<1>>].pc = "load"

\* the delete call ends with the combined failure
Aborted ==
  /\ tasks'[<<1>>].pc = "threw"
  /\ tasks'[<<1>>].error = "AggregateError"

\* C33: when non-bundle operations of a cascade have failed, the cascade
\* raises a stale-version conflict, and delete starts over, exactly when
\* every failure is a stale-version conflict; with another failure among
\* them the call ends with the combined failure. Either way no bundle
\* operation is started and the target stays stored.
C33_StaleOnlyRetries ==
  [][LastOpStep =>
       LET k == Top.pending[1]
           last == RunOp(store, nextId, Top.plan, k).name
           failed == Top.errors # <<>> \/ store' = store
       IN /\ Aborted => /\ ~AllStale(tasks'[<<1>>].errors)
                        /\ Len(tasks'[<<1>>].errors) >= Len(Top.errors)
          /\ Restarted => /\ AllStale(Top.errors)
                          /\ store' # store \/ last = "InvalidStateError"
          /\ failed => (Aborted \/ Restarted)
          /\ (Aborted \/ Restarted) =>
               /\ failed
               /\ Differ(store, store') \subseteq {Top.plan.loaded[k].id}
               /\ Len(Top.sorted) = Len(BundleOps(Top.plan))
               /\ \A j \in SeqToSet(BundleOps(Top.plan)) :
                    Top.plan.loaded[j].id \notin Differ(store, store')
               /\ Top.doc # NoDoc => Top.doc.id \notin Differ(store, store')]_vars

\* two non-bundle operations of a cascade failed, one on a stale version
\* and one for another reason, and the delete call ended with the combined
\* failure while a bundle operation was planned
C33_Witness ==
  /\ Planned
  /\ Top.pc = "threw"
  /\ Top.error = "AggregateError"
  /\ Len(Top.errors) >= 2
  /\ \E i \in DOMAIN Top.errors : Top.errors[i] = "InvalidStateError"
  /\ Len(BundleOps(Top.plan)) >= 1

\* the delete call is in a later attempt: every failure of the attempt
\* before was a stale-version conflict
C33_WitnessRetried ==
  /\ Called({"delete"})
  /\ Top.attempt >= 2
  /\ Top.pc = "returned"

\* the child upserts of call q that have been started
ChildrenOf(ts, q) == {p \in DOMAIN ts : Len(p) = Len(q) + 1 /\ Parent(p) = q}

\* the child upserts of call q that are in flight
InFlight(ts, q) == {p \in ChildrenOf(ts, q) : ~Settled(ts[p])}

\* at most OPS_CONCURRENCY child upserts of one parent are in flight
BoundedInFlight ==
  \A q \in DOMAIN tasks : Cardinality(InFlight(tasks, q)) <= OPS_CONCURRENCY

\* a child upsert is started either in the first batch, when its parent
\* has written its own document, or when a sibling has returned and no
\* started sibling has failed
StartedInTurn ==
  \A p \in DOMAIN tasks' \ DOMAIN tasks :
    Len(p) >= 2 =>
      LET q == Parent(p)
      IN /\ tasks'[q].pc = "addBundleContents"
         /\ IF p[Len(p)] <= OPS_CONCURRENCY
              THEN tasks[q].pc = "update"
              ELSE /\ tasks[q].pc = "addBundleContents"
                   /\ \A c \in ChildrenOf(tasks, q) : tasks[c].pc # "threw"
                   /\ \E c \in InFlight(tasks, q) : tasks'[c].pc = "returned"
                   /\ Cardinality(InFlight(tasks', q)) <= OPS_CONCURRENCY

\* C34: while the bundle contents of one parent are written at most 10 of
\* its child upserts are in flight at any time, and once a child upsert
\* has failed no child upsert of that parent is started any more.
C34_TenAtOnce == []BoundedInFlight /\ [][StartedInTurn]_vars

\* the eleventh child was started after one of the first ten had returned,
\* ten are in flight again, then one child failed and the twelfth was
\* never started although children kept settling
C34_Witness ==
  /\ Called({"upsert"})
  /\ Top.pc = "threw"
  /\ <<1, 11>> \in DOMAIN tasks
  /\ <<1, 12>> \notin DOMAIN tasks
  /\ Len(Contents(Top.args)) = 12
  /\ \E c \in ChildrenOf(tasks, <<1>>) : tasks[c].pc = "returned"
  /\ InFlight(tasks, <<1>>) = {}

\* ten child upserts are in flight and the eleventh is among them
C34_WitnessFull ==
  /\ Cardinality(InFlight(tasks, <<1>>)) = OPS_CONCURRENCY
  /\ <<1, 11>> \in InFlight(tasks, <<1>>)

\* the documents of store st that carry credential id `cid` in bundledBy
BundledUnder(st, cid) == {h \in DOMAIN st : cid \in Parents(st[h])}

\* a delete by id with deleteBundle = true has settled; when it was
\* called no document had the id and some documents were bundled by it
OrphansDeleted ==
  /\ Called({"delete"})
  /\ Settled(Top)
  /\ Has(Top.args, "id")
  /\ Top.args.deleteBundle
  /\ FindById(Top.pre, Top.args.id) = NoDoc
  /\ BundledUnder(Top.pre, Top.args.id) # {}

\* C35: delete by id (deleteBundle = true, the default) when no document
\* has the id but stored documents still carry it in bundledBy unlinks or
\* deletes every one of those documents and returns deleted = true with
\* the bundle and no doc.
C35_OrphansCleaned ==
  OrphansDeleted =>
    /\ Top.pc = "returned"
    /\ Top.result.deleted
    /\ Top.result.bundle = TRUE
    /\ Top.result.doc = NoDoc
    /\ BundledUnder(store, Top.args.id) = {}
    /\ \A h \in BundledUnder(Top.pre, Top.args.id) :
         /\ (Parents(Top.pre[h]) = {Top.args.id} /\ Dependent(Top.pre[h]))
              => h \notin DOMAIN store
         /\ ~Dependent(Top.pre[h]) => h \in DOMAIN store
         /\ h \in DOMAIN store =>
              /\ Parents(store[h]) \subseteq Parents(Top.pre[h]) \ {Top.args.id}
              /\ store[h].content = Top.pre[h].content

\* such a delete has returned after it deleted one document left behind
\* and unlinked another
C35_Witness ==
  /\ OrphansDeleted
  /\ Top.pc = "returned"
  /\ \E h \in BundledUnder(Top.pre, Top.args.id) : h \notin DOMAIN store
  /\ \E h \in BundledUnder(Top.pre, Top.args.id) : h \in DOMAIN store

\* the bundle ids the call in flight has queried so far, in order
Queried == IF Top.op = "delete" THEN Top.g.queried ELSE Top.queried

\* the store the load of the call in flight reads
Read == IF Top.op = "delete" THEN Top.pre ELSE store

\* every bundle id is queried at most once, so the load makes no more
\* queries than the store has documents, the root counted in
QueriedOnce ==
  /\ NoRepeats(Queried)
  /\ Len(Queried) <= Cardinality(DOMAIN Read) + 1

\* every bundle the cascade went through was queried by the load
ExpandedLoaded ==
  Top.op = "delete" => SeqToSet(Top.plan.expanded) \subseteq SeqToSet(Queried)

\* C36 as stated: the closure load and the cascade traversal end on every
\* store content, cycles and shared documents included: each bundle id is
\* queried at most once and each bundle node is expanded at most once.
C36_OnceEach ==
  Called({"delete", "getBundle"}) =>
    /\ QueriedOnce
    /\ ExpandedLoaded
    /\ Top.op = "delete" => NoRepeats(Top.plan.expanded)

\* a document the cascade loaded names a parent twice in its bundledBy
RepeatedParent ==
  \E k \in DOMAIN Top.plan.loaded : ~NoRepeats(BundledBy(Top.plan.loaded[k]))

\* C36, amended: the closure load and the cascade traversal end on every
\* store content, cycles and shared documents included; each bundle id is
\* queried at most once, the cascade goes only through bundles that were
\* loaded, and each bundle node is expanded at most once unless a loaded
\* document names a parent twice in its bundledBy.
C36_OnceEachUnlessRepeated ==
  Called({"delete", "getBundle"}) =>
    /\ QueriedOnce
    /\ ExpandedLoaded
    /\ (Top.op = "delete" /\ ~RepeatedParent) => NoRepeats(Top.plan.expanded)

\* a bundle was read in which two sub-bundles bundle each other: three
\* queries were made and the read returned
C36_Witness ==
  /\ BundleRead
  /\ Len(Top.queried) >= 3
  /\ \E j, k \in DOMAIN Top.result.allSubDocuments :
       /\ j # k
       /\ Top.result.allSubDocuments[j].content.id
            \in Parents(Top.result.allSubDocuments[k])
       /\ Top.result.allSubDocuments[k].content.id
            \in Parents(Top.result.allSubDocuments[j])

\* a cascade went through a sub-bundle that two bundles of the closure
\* list, once
C36_WitnessCascade ==
  /\ Planned
  /\ ~RepeatedParent
  /\ \E k \in Ops :
       /\ IsBundle(Top.plan.loaded[k])
       /\ Cardinality(Dropped(k)) >= 2
       /\ Top.plan.loaded[k].content.id \in SeqToSet(Top.plan.expanded)

\* C37: for a stored bundle document D, getBundle called with doc = D
\* returns the same bundle tree and the same allSubDocuments as getBundle
\* called with id = D.content.id.
C37_SameByDoc ==
  (/\ Called({"getBundle"})
   /\ Has(Top.args, "doc")
   /\ IsBundle(Top.args.doc))
    => /\ Top.pc = "returned"
       /\ Top.result = GetBundleById(store, Top.args.doc.content.id).result

\* the write call in flight lists one entry whose credential has no id and
\* which defines no sub-bundle
NoIdEntry ==
  /\ Called({"insert", "upsert"})
  /\ Has(Top.args, "bundleContents")
  /\ Top.args.bundleContents = <<[credential |-> NoIdCred]>>

\* C38: a bundleContents entry whose credential has no id and which defines
\* no sub-bundle passes input validation, and the call does not fail after
\* the top-level document has been written: once it has settled it has
\* returned, and the entry's credential is stored as bundle content linked
\* to the parent.
C38_NoIdEntryStored ==
  NoIdEntry =>
    /\ Top.pc # "threw"
    /\ Top.pc = "returned" =>
         \E h \in DOMAIN store :
           /\ store[h].content = NoIdCred
           /\ Top.args.credential.id \in Parents(store[h])

\* the documents of store st whose credential id is id
StoredAs(st, id) ==
  {h \in DOMAIN st : Has(st[h].content, "id") /\ st[h].content.id = id}

\* C39: whenever delete of an existing, unbundled target returns a result
\* instead of throwing, the target document is no longer in the store, also
\* when other callers concurrently delete documents of its bundle closure.
C39_ReturnedMeansGone ==
  (/\ Called({"delete"})
   /\ Has(Top.args, "id")
   /\ \E h \in StoredAs(Top.pre, Top.args.id) : Parents(Top.pre[h]) = {}
   /\ Top.pc = "returned")
    => StoredAs(store, Top.args.id) = {}

\* the delete of P1 and the upsert of P2 have both returned
BothSucceeded ==
  /\ Called({"delete"})
  /\ Top.pc = "returned"
  /\ <<2>> \in DOMAIN tasks
  /\ tasks[<<2>>].pc = "returned"

\* C40: if delete of bundle P1 runs concurrently with an upsert of bundle
\* P2 that lists C, a dependent child of P1, then whenever both calls have
\* succeeded C is stored with P2 in its bundledBy.
C40_StillBundled ==
  BothSucceeded =>
    \E h \in StoredAs(store, "C") : "P2" \in Parents(store[h])

\* both calls succeeded after the cascade found its copy of C stale and ran
\* again
C40_Witness ==
  /\ BothSucceeded
  /\ Top.attempt > 1
  /\ Top.result.deleted
  /\ StoredAs(store, "P1") = {}

\* both calls succeeded after the cascade deleted C and the upsert stored it
\* anew
C40_WitnessAnew ==
  /\ BothSucceeded
  /\ Top.attempt = 1
  /\ StoredAs(store, "C") \cap DOMAIN Top.pre = {}

====
